---- MODULE Spec2Model ----
(***************************************************************************)
(* yasched: the task registry and polling engine of yasched/scheduler.py   *)
(* (Task, Scheduler) on top of the process-wide job list of the `schedule` *)
(* library that scheduler.py drives (schedule.every / cancel_job / clear / *)
(* run_pending).                                                           *)
(*                                                                         *)
(* Time is a number of seconds since a Monday 00:00:00 (naive local time). *)
(* A schedule phrase is the sequence of its characters, each a one-letter  *)
(* string, so that lower(), split(), rstrip('s'), isdigit() and int() are  *)
(* computed the way the code computes them.                                *)
(***************************************************************************)
EXTENDS Integers, Sequences, FiniteSets, TLC

(***************************************************************************)
(* Bounds of the model.                                                    *)
(***************************************************************************)
\* Task.execute() is called directly ("run now") on a task only while its
\* run_count is below MaxRuns; polling is not limited.
MaxRuns == 2

\* The number of slots the list of get_occurrences() can hold.
MaxOccurrences == 20

\* The number of calls made on one Periodic.
MaxCalls == 2

\* Python's None for last_run / next_run / at_time (times are >= 0).
None == 0 - 1

MinuteSecs == 60
HourSecs == 60 * MinuteSecs
DaySecs == 24 * HourSecs
WeekSecs == 7 * DaySecs

(***************************************************************************)
(* Strings.                                                                *)
(***************************************************************************)
Uppers == <<"A","B","C","D","E","F","G","H","I","J","K","L","M",
            "N","O","P","Q","R","S","T","U","V","W","X","Y","Z">>
Lowers == <<"a","b","c","d","e","f","g","h","i","j","k","l","m",
            "n","o","p","q","r","s","t","u","v","w","x","y","z">>
Digits == <<"0","1","2","3","4","5","6","7","8","9">>
\* The characters str.split() splits at (str.isspace): space, tab, newline,
\* vertical tab, form feed, carriage return, the separators U+001C to U+001F,
\* U+0085, U+00A0 and U+1680.  The other Unicode spaces (U+2000 to U+200A,
\* U+2028, U+2029, U+202F, U+205F, U+3000) cannot be written in a string of
\* this module and are in no phrase of it.
Whitespace ==
    {" ", "\t", "\n", "", "\f", "\r",
     "", "", "", "", "", " ", " "}

\* A string of this module holds the characters below U+0100 and, of the
\* others, those from U+xx80 to U+xxFF of the basic plane; the quotation mark,
\* the backslash and the grave accent cannot be written.  The tables below
\* are those of Unicode 14.0 (CPython 3.11) for the characters it can hold:
\* a phrase of the model has no other character.
\*
\* The characters outside ASCII that str.lower() changes, and what it makes of
\* each.
Capitals ==
    <<"À", "Á", "Â", "Ã", "Ä", "Å", "Æ", "Ç", "È", "É", "Ê", "Ë", "Ì", "Í", "Î", "Ï",
     "Ð", "Ñ", "Ò", "Ó", "Ô", "Õ", "Ö", "Ø", "Ù", "Ú", "Û", "Ü", "Ý", "Þ", "Ƃ", "Ƅ",
     "Ƈ", "Ƌ", "Ǝ", "Ƒ", "Ƙ", "Ơ", "Ƣ", "Ƥ", "Ʀ", "Ƨ", "Ʃ", "Ƭ", "Ʈ", "Ư", "Ʊ", "Ʋ",
     "Ƴ", "Ƶ", "Ʒ", "Ƹ", "Ƽ", "Ǆ", "ǅ", "Ǉ", "ǈ", "Ǌ", "ǋ", "Ǎ", "Ǐ", "Ǒ", "Ǔ", "Ǖ",
     "Ǘ", "Ǚ", "Ǜ", "Ǟ", "Ǡ", "Ǣ", "Ǥ", "Ǧ", "Ǩ", "Ǫ", "Ǭ", "Ǯ", "Ǳ", "ǲ", "Ǵ", "Ƕ",
     "Ƿ", "Ǹ", "Ǻ", "Ǽ", "Ǿ", "Ά", "Έ", "Ή", "Ί", "Ό", "Ύ", "Ώ", "Α", "Β", "Γ", "Δ",
     "Ε", "Ζ", "Η", "Θ", "Ι", "Κ", "Λ", "Μ", "Ν", "Ξ", "Ο", "Π", "Ρ", "Σ", "Τ", "Υ",
     "Φ", "Χ", "Ψ", "Ω", "Ϊ", "Ϋ", "Ϗ", "Ϙ", "Ϛ", "Ϝ", "Ϟ", "Ϡ", "Ϣ", "Ϥ", "Ϧ", "Ϩ",
     "Ϫ", "Ϭ", "Ϯ", "ϴ", "Ϸ", "Ϲ", "Ϻ", "Ҁ", "Ҋ", "Ҍ", "Ҏ", "Ґ", "Ғ", "Ҕ", "Җ", "Ҙ",
     "Қ", "Ҝ", "Ҟ", "Ҡ", "Ң", "Ҥ", "Ҧ", "Ҩ", "Ҫ", "Ҭ", "Ү", "Ұ", "Ҳ", "Ҵ", "Ҷ", "Ҹ",
     "Һ", "Ҽ", "Ҿ", "Ӏ", "Ӂ", "Ӄ", "Ӆ", "Ӈ", "Ӊ", "Ӌ", "Ӎ", "Ӑ", "Ӓ", "Ӕ", "Ӗ", "Ә",
     "Ӛ", "Ӝ", "Ӟ", "Ӡ", "Ӣ", "Ӥ", "Ӧ", "Ө", "Ӫ", "Ӭ", "Ӯ", "Ӱ", "Ӳ", "Ӵ", "Ӷ", "Ӹ",
     "Ӻ", "Ӽ", "Ӿ", "Ꮀ", "Ꮁ", "Ꮂ", "Ꮃ", "Ꮄ", "Ꮅ", "Ꮆ", "Ꮇ", "Ꮈ", "Ꮉ", "Ꮊ", "Ꮋ", "Ꮌ",
     "Ꮍ", "Ꮎ", "Ꮏ", "Ꮐ", "Ꮑ", "Ꮒ", "Ꮓ", "Ꮔ", "Ꮕ", "Ꮖ", "Ꮗ", "Ꮘ", "Ꮙ", "Ꮚ", "Ꮛ", "Ꮜ",
     "Ꮝ", "Ꮞ", "Ꮟ", "Ꮠ", "Ꮡ", "Ꮢ", "Ꮣ", "Ꮤ", "Ꮥ", "Ꮦ", "Ꮧ", "Ꮨ", "Ꮩ", "Ꮪ", "Ꮫ", "Ꮬ",
     "Ꮭ", "Ꮮ", "Ꮯ", "Ꮰ", "Ꮱ", "Ꮲ", "Ꮳ", "Ꮴ", "Ꮵ", "Ꮶ", "Ꮷ", "Ꮸ", "Ꮹ", "Ꮺ", "Ꮻ", "Ꮼ",
     "Ꮽ", "Ꮾ", "Ꮿ", "Ᏸ", "Ᏹ", "Ᏺ", "Ᏻ", "Ᏼ", "Ᏽ", "Ა", "Ბ", "Გ", "Დ", "Ე", "Ვ", "Ზ",
     "Თ", "Ი", "Კ", "Ლ", "Მ", "Ნ", "Ო", "Პ", "Ჟ", "Რ", "Ს", "Ტ", "Უ", "Ფ", "Ქ", "Ღ",
     "Ყ", "Შ", "Ჩ", "Ც", "Ძ", "Წ", "Ჭ", "Ხ", "Ჯ", "Ჰ", "Ჱ", "Ჲ", "Ჳ", "Ჴ", "Ჵ", "Ჶ",
     "Ჷ", "Ჸ", "Ჹ", "Ჺ", "Ჽ", "Ჾ", "Ჿ", "Ẁ", "Ẃ", "Ẅ", "Ẇ", "Ẉ", "Ẋ", "Ẍ", "Ẏ", "Ẑ",
     "Ẓ", "Ẕ", "ẞ", "Ạ", "Ả", "Ấ", "Ầ", "Ẩ", "Ẫ", "Ậ", "Ắ", "Ằ", "Ẳ", "Ẵ", "Ặ", "Ẹ",
     "Ẻ", "Ẽ", "Ế", "Ề", "Ể", "Ễ", "Ệ", "Ỉ", "Ị", "Ọ", "Ỏ", "Ố", "Ồ", "Ổ", "Ỗ", "Ộ",
     "Ớ", "Ờ", "Ở", "Ỡ", "Ợ", "Ụ", "Ủ", "Ứ", "Ừ", "Ử", "Ữ", "Ự", "Ỳ", "Ỵ", "Ỷ", "Ỹ",
     "Ỻ", "Ỽ", "Ỿ", "ᾈ", "ᾉ", "ᾊ", "ᾋ", "ᾌ", "ᾍ", "ᾎ", "ᾏ", "ᾘ", "ᾙ", "ᾚ", "ᾛ", "ᾜ",
     "ᾝ", "ᾞ", "ᾟ", "ᾨ", "ᾩ", "ᾪ", "ᾫ", "ᾬ", "ᾭ", "ᾮ", "ᾯ", "Ᾰ", "Ᾱ", "ᾼ", "ῌ", "Ῐ",
     "Ῑ", "Ῠ", "Ῡ", "Ῥ", "ῼ", "Ↄ", "Ⓐ", "Ⓑ", "Ⓒ", "Ⓓ", "Ⓔ", "Ⓕ", "Ⓖ", "Ⓗ", "Ⓘ", "Ⓙ",
     "Ⓚ", "Ⓛ", "Ⓜ", "Ⓝ", "Ⓞ", "Ⓟ", "Ⓠ", "Ⓡ", "Ⓢ", "Ⓣ", "Ⓤ", "Ⓥ", "Ⓦ", "Ⓧ", "Ⓨ", "Ⓩ",
     "Ⲁ", "Ⲃ", "Ⲅ", "Ⲇ", "Ⲉ", "Ⲋ", "Ⲍ", "Ⲏ", "Ⲑ", "Ⲓ", "Ⲕ", "Ⲗ", "Ⲙ", "Ⲛ", "Ⲝ", "Ⲟ",
     "Ⲡ", "Ⲣ", "Ⲥ", "Ⲧ", "Ⲩ", "Ⲫ", "Ⲭ", "Ⲯ", "Ⲱ", "Ⲳ", "Ⲵ", "Ⲷ", "Ⲹ", "Ⲻ", "Ⲽ", "Ⲿ",
     "Ⳁ", "Ⳃ", "Ⳅ", "Ⳇ", "Ⳉ", "Ⳋ", "Ⳍ", "Ⳏ", "Ⳑ", "Ⳓ", "Ⳕ", "Ⳗ", "Ⳙ", "Ⳛ", "Ⳝ", "Ⳟ",
     "Ⳡ", "Ⳣ", "Ⳬ", "Ⳮ", "Ⳳ", "Ꚁ", "Ꚃ", "Ꚅ", "Ꚇ", "Ꚉ", "Ꚋ", "Ꚍ", "Ꚏ", "Ꚑ", "Ꚓ", "Ꚕ",
     "Ꚗ", "Ꚙ", "Ꚛ", "Ꞁ", "Ꞃ", "Ꞅ", "Ꞇ", "Ꞌ", "Ꞑ", "Ꞓ", "Ꞗ", "Ꞙ", "Ꞛ", "Ꞝ", "Ꞟ", "Ꞡ",
     "Ꞣ", "Ꞥ", "Ꞧ", "Ꞩ", "Ʞ", "Ʇ", "Ʝ", "Ꞵ", "Ꞷ", "Ꞹ", "Ꞻ", "Ꞽ", "Ꞿ", "Ꟁ", "Ꟃ", "Ꞔ",
     "Ʂ", "Ᶎ", "Ꟈ", "Ꟊ", "Ꟑ", "Ꟗ", "Ꟙ", "Ꟶ">>
Smalls ==
    <<"à", "á", "â", "ã", "ä", "å", "æ", "ç", "è", "é", "ê", "ë", "ì", "í", "î", "ï",
     "ð", "ñ", "ò", "ó", "ô", "õ", "ö", "ø", "ù", "ú", "û", "ü", "ý", "þ", "ƃ", "ƅ",
     "ƈ", "ƌ", "ǝ", "ƒ", "ƙ", "ơ", "ƣ", "ƥ", "ʀ", "ƨ", "ʃ", "ƭ", "ʈ", "ư", "ʊ", "ʋ",
     "ƴ", "ƶ", "ʒ", "ƹ", "ƽ", "ǆ", "ǆ", "ǉ", "ǉ", "ǌ", "ǌ", "ǎ", "ǐ", "ǒ", "ǔ", "ǖ",
     "ǘ", "ǚ", "ǜ", "ǟ", "ǡ", "ǣ", "ǥ", "ǧ", "ǩ", "ǫ", "ǭ", "ǯ", "ǳ", "ǳ", "ǵ", "ƕ",
     "ƿ", "ǹ", "ǻ", "ǽ", "ǿ", "ά", "έ", "ή", "ί", "ό", "ύ", "ώ", "α", "β", "γ", "δ",
     "ε", "ζ", "η", "θ", "ι", "κ", "λ", "μ", "ν", "ξ", "ο", "π", "ρ", "σ", "τ", "υ",
     "φ", "χ", "ψ", "ω", "ϊ", "ϋ", "ϗ", "ϙ", "ϛ", "ϝ", "ϟ", "ϡ", "ϣ", "ϥ", "ϧ", "ϩ",
     "ϫ", "ϭ", "ϯ", "θ", "ϸ", "ϲ", "ϻ", "ҁ", "ҋ", "ҍ", "ҏ", "ґ", "ғ", "ҕ", "җ", "ҙ",
     "қ", "ҝ", "ҟ", "ҡ", "ң", "ҥ", "ҧ", "ҩ", "ҫ", "ҭ", "ү", "ұ", "ҳ", "ҵ", "ҷ", "ҹ",
     "һ", "ҽ", "ҿ", "ӏ", "ӂ", "ӄ", "ӆ", "ӈ", "ӊ", "ӌ", "ӎ", "ӑ", "ӓ", "ӕ", "ӗ", "ә",
     "ӛ", "ӝ", "ӟ", "ӡ", "ӣ", "ӥ", "ӧ", "ө", "ӫ", "ӭ", "ӯ", "ӱ", "ӳ", "ӵ", "ӷ", "ӹ",
     "ӻ", "ӽ", "ӿ", "ꮀ", "ꮁ", "ꮂ", "ꮃ", "ꮄ", "ꮅ", "ꮆ", "ꮇ", "ꮈ", "ꮉ", "ꮊ", "ꮋ", "ꮌ",
     "ꮍ", "ꮎ", "ꮏ", "ꮐ", "ꮑ", "ꮒ", "ꮓ", "ꮔ", "ꮕ", "ꮖ", "ꮗ", "ꮘ", "ꮙ", "ꮚ", "ꮛ", "ꮜ",
     "ꮝ", "ꮞ", "ꮟ", "ꮠ", "ꮡ", "ꮢ", "ꮣ", "ꮤ", "ꮥ", "ꮦ", "ꮧ", "ꮨ", "ꮩ", "ꮪ", "ꮫ", "ꮬ",
     "ꮭ", "ꮮ", "ꮯ", "ꮰ", "ꮱ", "ꮲ", "ꮳ", "ꮴ", "ꮵ", "ꮶ", "ꮷ", "ꮸ", "ꮹ", "ꮺ", "ꮻ", "ꮼ",
     "ꮽ", "ꮾ", "ꮿ", "ᏸ", "ᏹ", "ᏺ", "ᏻ", "ᏼ", "ᏽ", "ა", "ბ", "გ", "დ", "ე", "ვ", "ზ",
     "თ", "ი", "კ", "ლ", "მ", "ნ", "ო", "პ", "ჟ", "რ", "ს", "ტ", "უ", "ფ", "ქ", "ღ",
     "ყ", "შ", "ჩ", "ც", "ძ", "წ", "ჭ", "ხ", "ჯ", "ჰ", "ჱ", "ჲ", "ჳ", "ჴ", "ჵ", "ჶ",
     "ჷ", "ჸ", "ჹ", "ჺ", "ჽ", "ჾ", "ჿ", "ẁ", "ẃ", "ẅ", "ẇ", "ẉ", "ẋ", "ẍ", "ẏ", "ẑ",
     "ẓ", "ẕ", "ß", "ạ", "ả", "ấ", "ầ", "ẩ", "ẫ", "ậ", "ắ", "ằ", "ẳ", "ẵ", "ặ", "ẹ",
     "ẻ", "ẽ", "ế", "ề", "ể", "ễ", "ệ", "ỉ", "ị", "ọ", "ỏ", "ố", "ồ", "ổ", "ỗ", "ộ",
     "ớ", "ờ", "ở", "ỡ", "ợ", "ụ", "ủ", "ứ", "ừ", "ử", "ữ", "ự", "ỳ", "ỵ", "ỷ", "ỹ",
     "ỻ", "ỽ", "ỿ", "ᾀ", "ᾁ", "ᾂ", "ᾃ", "ᾄ", "ᾅ", "ᾆ", "ᾇ", "ᾐ", "ᾑ", "ᾒ", "ᾓ", "ᾔ",
     "ᾕ", "ᾖ", "ᾗ", "ᾠ", "ᾡ", "ᾢ", "ᾣ", "ᾤ", "ᾥ", "ᾦ", "ᾧ", "ᾰ", "ᾱ", "ᾳ", "ῃ", "ῐ",
     "ῑ", "ῠ", "ῡ", "ῥ", "ῳ", "ↄ", "ⓐ", "ⓑ", "ⓒ", "ⓓ", "ⓔ", "ⓕ", "ⓖ", "ⓗ", "ⓘ", "ⓙ",
     "ⓚ", "ⓛ", "ⓜ", "ⓝ", "ⓞ", "ⓟ", "ⓠ", "ⓡ", "ⓢ", "ⓣ", "ⓤ", "ⓥ", "ⓦ", "ⓧ", "ⓨ", "ⓩ",
     "ⲁ", "ⲃ", "ⲅ", "ⲇ", "ⲉ", "ⲋ", "ⲍ", "ⲏ", "ⲑ", "ⲓ", "ⲕ", "ⲗ", "ⲙ", "ⲛ", "ⲝ", "ⲟ",
     "ⲡ", "ⲣ", "ⲥ", "ⲧ", "ⲩ", "ⲫ", "ⲭ", "ⲯ", "ⲱ", "ⲳ", "ⲵ", "ⲷ", "ⲹ", "ⲻ", "ⲽ", "ⲿ",
     "ⳁ", "ⳃ", "ⳅ", "ⳇ", "ⳉ", "ⳋ", "ⳍ", "ⳏ", "ⳑ", "ⳓ", "ⳕ", "ⳗ", "ⳙ", "ⳛ", "ⳝ", "ⳟ",
     "ⳡ", "ⳣ", "ⳬ", "ⳮ", "ⳳ", "ꚁ", "ꚃ", "ꚅ", "ꚇ", "ꚉ", "ꚋ", "ꚍ", "ꚏ", "ꚑ", "ꚓ", "ꚕ",
     "ꚗ", "ꚙ", "ꚛ", "ꞁ", "ꞃ", "ꞅ", "ꞇ", "ꞌ", "ꞑ", "ꞓ", "ꞗ", "ꞙ", "ꞛ", "ꞝ", "ꞟ", "ꞡ",
     "ꞣ", "ꞥ", "ꞧ", "ꞩ", "ʞ", "ʇ", "ʝ", "ꞵ", "ꞷ", "ꞹ", "ꞻ", "ꞽ", "ꞿ", "ꟁ", "ꟃ", "ꞔ",
     "ʂ", "ᶎ", "ꟈ", "ꟊ", "ꟑ", "ꟗ", "ꟙ", "ꟶ">>

\* The characters whose lower case cannot be written: str.lower() is not
\* modelled on them.
NoSmall ==
    {"Ɓ", "Ɔ", "Ɖ", "Ɗ", "Ə", "Ɛ", "Ɠ", "Ɣ", "Ɩ", "Ɨ", "Ɯ", "Ɲ", "Ɵ", "Ͻ", "Ͼ", "Ͽ",
     "Ⴀ", "Ⴁ", "Ⴂ", "Ⴃ", "Ⴄ", "Ⴅ", "Ⴆ", "Ⴇ", "Ⴈ", "Ⴉ", "Ⴊ", "Ⴋ", "Ⴌ", "Ⴍ", "Ⴎ", "Ⴏ",
     "Ⴐ", "Ⴑ", "Ⴒ", "Ⴓ", "Ⴔ", "Ⴕ", "Ⴖ", "Ⴗ", "Ⴘ", "Ⴙ", "Ⴚ", "Ⴛ", "Ⴜ", "Ⴝ", "Ⴞ", "Ⴟ",
     "Ⴠ", "Ⴡ", "Ⴢ", "Ⴣ", "Ⴤ", "Ⴥ", "Ⴧ", "Ⴭ", "Ꭰ", "Ꭱ", "Ꭲ", "Ꭳ", "Ꭴ", "Ꭵ", "Ꭶ", "Ꭷ",
     "Ꭸ", "Ꭹ", "Ꭺ", "Ꭻ", "Ꭼ", "Ꭽ", "Ꭾ", "Ꭿ", "Ὰ", "Ά", "Ὲ", "Έ", "Ὴ", "Ή", "Ὶ", "Ί",
     "Ὺ", "Ύ", "Ὸ", "Ό", "Ὼ", "Ώ", "Ɥ", "Ɦ", "Ɜ", "Ɡ", "Ɬ", "Ɪ", "Ꭓ"}

\* _PyUnicode_IsCased and _PyUnicode_IsCaseIgnorable, which str.lower() places
\* a capital sigma with.
Cased ==
    {"A", "B", "C", "D", "E", "F", "G", "H", "I", "J", "K", "L", "M", "N", "O", "P",
     "Q", "R", "S", "T", "U", "V", "W", "X", "Y", "Z", "a", "b", "c", "d", "e", "f",
     "g", "h", "i", "j", "k", "l", "m", "n", "o", "p", "q", "r", "s", "t", "u", "v",
     "w", "x", "y", "z", "ª", "µ", "º", "À", "Á", "Â", "Ã", "Ä", "Å", "Æ", "Ç", "È",
     "É", "Ê", "Ë", "Ì", "Í", "Î", "Ï", "Ð", "Ñ", "Ò", "Ó", "Ô", "Õ", "Ö", "Ø", "Ù",
     "Ú", "Û", "Ü", "Ý", "Þ", "ß", "à", "á", "â", "ã", "ä", "å", "æ", "ç", "è", "é",
     "ê", "ë", "ì", "í", "î", "ï", "ð", "ñ", "ò", "ó", "ô", "õ", "ö", "ø", "ù", "ú",
     "û", "ü", "ý", "þ", "ÿ", "ƀ", "Ɓ", "Ƃ", "ƃ", "Ƅ", "ƅ", "Ɔ", "Ƈ", "ƈ", "Ɖ", "Ɗ",
     "Ƌ", "ƌ", "ƍ", "Ǝ", "Ə", "Ɛ", "Ƒ", "ƒ", "Ɠ", "Ɣ", "ƕ", "Ɩ", "Ɨ", "Ƙ", "ƙ", "ƚ",
     "ƛ", "Ɯ", "Ɲ", "ƞ", "Ɵ", "Ơ", "ơ", "Ƣ", "ƣ", "Ƥ", "ƥ", "Ʀ", "Ƨ", "ƨ", "Ʃ", "ƪ",
     "ƫ", "Ƭ", "ƭ", "Ʈ", "Ư", "ư", "Ʊ", "Ʋ", "Ƴ", "ƴ", "Ƶ", "ƶ", "Ʒ", "Ƹ", "ƹ", "ƺ",
     "Ƽ", "ƽ", "ƾ", "ƿ", "Ǆ", "ǅ", "ǆ", "Ǉ", "ǈ", "ǉ", "Ǌ", "ǋ", "ǌ", "Ǎ", "ǎ", "Ǐ",
     "ǐ", "Ǒ", "ǒ", "Ǔ", "ǔ", "Ǖ", "ǖ", "Ǘ", "ǘ", "Ǚ", "ǚ", "Ǜ", "ǜ", "ǝ", "Ǟ", "ǟ",
     "Ǡ", "ǡ", "Ǣ", "ǣ", "Ǥ", "ǥ", "Ǧ", "ǧ", "Ǩ", "ǩ", "Ǫ", "ǫ", "Ǭ", "ǭ", "Ǯ", "ǯ",
     "ǰ", "Ǳ", "ǲ", "ǳ", "Ǵ", "ǵ", "Ƕ", "Ƿ", "Ǹ", "ǹ", "Ǻ", "ǻ", "Ǽ", "ǽ", "Ǿ", "ǿ",
     "ʀ", "ʁ", "ʂ", "ʃ", "ʄ", "ʅ", "ʆ", "ʇ", "ʈ", "ʉ", "ʊ", "ʋ", "ʌ", "ʍ", "ʎ", "ʏ",
     "ʐ", "ʑ", "ʒ", "ʓ", "ʕ", "ʖ", "ʗ", "ʘ", "ʙ", "ʚ", "ʛ", "ʜ", "ʝ", "ʞ", "ʟ", "ʠ",
     "ʡ", "ʢ", "ʣ", "ʤ", "ʥ", "ʦ", "ʧ", "ʨ", "ʩ", "ʪ", "ʫ", "ʬ", "ʭ", "ʮ", "ʯ", "ʰ",
     "ʱ", "ʲ", "ʳ", "ʴ", "ʵ", "ʶ", "ʷ", "ʸ", "ˀ", "ˁ", "ˠ", "ˡ", "ˢ", "ˣ", "ˤ", "Ά",
     "Έ", "Ή", "Ί", "Ό", "Ύ", "Ώ", "ΐ", "Α", "Β", "Γ", "Δ", "Ε", "Ζ", "Η", "Θ", "Ι",
     "Κ", "Λ", "Μ", "Ν", "Ξ", "Ο", "Π", "Ρ", "Σ", "Τ", "Υ", "Φ", "Χ", "Ψ", "Ω", "Ϊ",
     "Ϋ", "ά", "έ", "ή", "ί", "ΰ", "α", "β", "γ", "δ", "ε", "ζ", "η", "θ", "ι", "κ",
     "λ", "μ", "ν", "ξ", "ο", "π", "ρ", "ς", "σ", "τ", "υ", "φ", "χ", "ψ", "ω", "ϊ",
     "ϋ", "ό", "ύ", "ώ", "Ϗ", "ϐ", "ϑ", "ϒ", "ϓ", "ϔ", "ϕ", "ϖ", "ϗ", "Ϙ", "ϙ", "Ϛ",
     "ϛ", "Ϝ", "ϝ", "Ϟ", "ϟ", "Ϡ", "ϡ", "Ϣ", "ϣ", "Ϥ", "ϥ", "Ϧ", "ϧ", "Ϩ", "ϩ", "Ϫ",
     "ϫ", "Ϭ", "ϭ", "Ϯ", "ϯ", "ϰ", "ϱ", "ϲ", "ϳ", "ϴ", "ϵ", "Ϸ", "ϸ", "Ϲ", "Ϻ", "ϻ",
     "ϼ", "Ͻ", "Ͼ", "Ͽ", "Ҁ", "ҁ", "Ҋ", "ҋ", "Ҍ", "ҍ", "Ҏ", "ҏ", "Ґ", "ґ", "Ғ", "ғ",
     "Ҕ", "ҕ", "Җ", "җ", "Ҙ", "ҙ", "Қ", "қ", "Ҝ", "ҝ", "Ҟ", "ҟ", "Ҡ", "ҡ", "Ң", "ң",
     "Ҥ", "ҥ", "Ҧ", "ҧ", "Ҩ", "ҩ", "Ҫ", "ҫ", "Ҭ", "ҭ", "Ү", "ү", "Ұ", "ұ", "Ҳ", "ҳ",
     "Ҵ", "ҵ", "Ҷ", "ҷ", "Ҹ", "ҹ", "Һ", "һ", "Ҽ", "ҽ", "Ҿ", "ҿ", "Ӏ", "Ӂ", "ӂ", "Ӄ",
     "ӄ", "Ӆ", "ӆ", "Ӈ", "ӈ", "Ӊ", "ӊ", "Ӌ", "ӌ", "Ӎ", "ӎ", "ӏ", "Ӑ", "ӑ", "Ӓ", "ӓ",
     "Ӕ", "ӕ", "Ӗ", "ӗ", "Ә", "ә", "Ӛ", "ӛ", "Ӝ", "ӝ", "Ӟ", "ӟ", "Ӡ", "ӡ", "Ӣ", "ӣ",
     "Ӥ", "ӥ", "Ӧ", "ӧ", "Ө", "ө", "Ӫ", "ӫ", "Ӭ", "ӭ", "Ӯ", "ӯ", "Ӱ", "ӱ", "Ӳ", "ӳ",
     "Ӵ", "ӵ", "Ӷ", "ӷ", "Ӹ", "ӹ", "Ӻ", "ӻ", "Ӽ", "ӽ", "Ӿ", "ӿ", "ր", "ց", "ւ", "փ",
     "ք", "օ", "ֆ", "և", "ֈ", "Ⴀ", "Ⴁ", "Ⴂ", "Ⴃ", "Ⴄ", "Ⴅ", "Ⴆ", "Ⴇ", "Ⴈ", "Ⴉ", "Ⴊ",
     "Ⴋ", "Ⴌ", "Ⴍ", "Ⴎ", "Ⴏ", "Ⴐ", "Ⴑ", "Ⴒ", "Ⴓ", "Ⴔ", "Ⴕ", "Ⴖ", "Ⴗ", "Ⴘ", "Ⴙ", "Ⴚ",
     "Ⴛ", "Ⴜ", "Ⴝ", "Ⴞ", "Ⴟ", "Ⴠ", "Ⴡ", "Ⴢ", "Ⴣ", "Ⴤ", "Ⴥ", "Ⴧ", "Ⴭ", "ა", "ბ", "გ",
     "დ", "ე", "ვ", "ზ", "თ", "ი", "კ", "ლ", "მ", "ნ", "ო", "პ", "ჟ", "რ", "ს", "ტ",
     "უ", "ფ", "ქ", "ღ", "ყ", "შ", "ჩ", "ც", "ძ", "წ", "ჭ", "ხ", "ჯ", "ჰ", "ჱ", "ჲ",
     "ჳ", "ჴ", "ჵ", "ჶ", "ჷ", "ჸ", "ჹ", "ჺ", "ჽ", "ჾ", "ჿ", "Ꭰ", "Ꭱ", "Ꭲ", "Ꭳ", "Ꭴ",
     "Ꭵ", "Ꭶ", "Ꭷ", "Ꭸ", "Ꭹ", "Ꭺ", "Ꭻ", "Ꭼ", "Ꭽ", "Ꭾ", "Ꭿ", "Ꮀ", "Ꮁ", "Ꮂ", "Ꮃ", "Ꮄ",
     "Ꮅ", "Ꮆ", "Ꮇ", "Ꮈ", "Ꮉ", "Ꮊ", "Ꮋ", "Ꮌ", "Ꮍ", "Ꮎ", "Ꮏ", "Ꮐ", "Ꮑ", "Ꮒ", "Ꮓ", "Ꮔ",
     "Ꮕ", "Ꮖ", "Ꮗ", "Ꮘ", "Ꮙ", "Ꮚ", "Ꮛ", "Ꮜ", "Ꮝ", "Ꮞ", "Ꮟ", "Ꮠ", "Ꮡ", "Ꮢ", "Ꮣ", "Ꮤ",
     "Ꮥ", "Ꮦ", "Ꮧ", "Ꮨ", "Ꮩ", "Ꮪ", "Ꮫ", "Ꮬ", "Ꮭ", "Ꮮ", "Ꮯ", "Ꮰ", "Ꮱ", "Ꮲ", "Ꮳ", "Ꮴ",
     "Ꮵ", "Ꮶ", "Ꮷ", "Ꮸ", "Ꮹ", "Ꮺ", "Ꮻ", "Ꮼ", "Ꮽ", "Ꮾ", "Ꮿ", "Ᏸ", "Ᏹ", "Ᏺ", "Ᏻ", "Ᏼ",
     "Ᏽ", "ᏸ", "ᏹ", "ᏺ", "ᏻ", "ᏼ", "ᏽ", "ᲀ", "ᲁ", "ᲂ", "ᲃ", "ᲄ", "ᲅ", "ᲆ", "ᲇ", "ᲈ",
     "Ა", "Ბ", "Გ", "Დ", "Ე", "Ვ", "Ზ", "Თ", "Ი", "Კ", "Ლ", "Მ", "Ნ", "Ო", "Პ", "Ჟ",
     "Რ", "Ს", "Ტ", "Უ", "Ფ", "Ქ", "Ღ", "Ყ", "Შ", "Ჩ", "Ც", "Ძ", "Წ", "Ჭ", "Ხ", "Ჯ",
     "Ჰ", "Ჱ", "Ჲ", "Ჳ", "Ჴ", "Ჵ", "Ჶ", "Ჷ", "Ჸ", "Ჹ", "Ჺ", "Ჽ", "Ჾ", "Ჿ", "ᶀ", "ᶁ",
     "ᶂ", "ᶃ", "ᶄ", "ᶅ", "ᶆ", "ᶇ", "ᶈ", "ᶉ", "ᶊ", "ᶋ", "ᶌ", "ᶍ", "ᶎ", "ᶏ", "ᶐ", "ᶑ",
     "ᶒ", "ᶓ", "ᶔ", "ᶕ", "ᶖ", "ᶗ", "ᶘ", "ᶙ", "ᶚ", "ᶛ", "ᶜ", "ᶝ", "ᶞ", "ᶟ", "ᶠ", "ᶡ",
     "ᶢ", "ᶣ", "ᶤ", "ᶥ", "ᶦ", "ᶧ", "ᶨ", "ᶩ", "ᶪ", "ᶫ", "ᶬ", "ᶭ", "ᶮ", "ᶯ", "ᶰ", "ᶱ",
     "ᶲ", "ᶳ", "ᶴ", "ᶵ", "ᶶ", "ᶷ", "ᶸ", "ᶹ", "ᶺ", "ᶻ", "ᶼ", "ᶽ", "ᶾ", "ᶿ", "Ẁ", "ẁ",
     "Ẃ", "ẃ", "Ẅ", "ẅ", "Ẇ", "ẇ", "Ẉ", "ẉ", "Ẋ", "ẋ", "Ẍ", "ẍ", "Ẏ", "ẏ", "Ẑ", "ẑ",
     "Ẓ", "ẓ", "Ẕ", "ẕ", "ẖ", "ẗ", "ẘ", "ẙ", "ẚ", "ẛ", "ẜ", "ẝ", "ẞ", "ẟ", "Ạ", "ạ",
     "Ả", "ả", "Ấ", "ấ", "Ầ", "ầ", "Ẩ", "ẩ", "Ẫ", "ẫ", "Ậ", "ậ", "Ắ", "ắ", "Ằ", "ằ",
     "Ẳ", "ẳ", "Ẵ", "ẵ", "Ặ", "ặ", "Ẹ", "ẹ", "Ẻ", "ẻ", "Ẽ", "ẽ", "Ế", "ế", "Ề", "ề",
     "Ể", "ể", "Ễ", "ễ", "Ệ", "ệ", "Ỉ", "ỉ", "Ị", "ị", "Ọ", "ọ", "Ỏ", "ỏ", "Ố", "ố",
     "Ồ", "ồ", "Ổ", "ổ", "Ỗ", "ỗ", "Ộ", "ộ", "Ớ", "ớ", "Ờ", "ờ", "Ở", "ở", "Ỡ", "ỡ",
     "Ợ", "ợ", "Ụ", "ụ", "Ủ", "ủ", "Ứ", "ứ", "Ừ", "ừ", "Ử", "ử", "Ữ", "ữ", "Ự", "ự",
     "Ỳ", "ỳ", "Ỵ", "ỵ", "Ỷ", "ỷ", "Ỹ", "ỹ", "Ỻ", "ỻ", "Ỽ", "ỽ", "Ỿ", "ỿ", "ᾀ", "ᾁ",
     "ᾂ", "ᾃ", "ᾄ", "ᾅ", "ᾆ", "ᾇ", "ᾈ", "ᾉ", "ᾊ", "ᾋ", "ᾌ", "ᾍ", "ᾎ", "ᾏ", "ᾐ", "ᾑ",
     "ᾒ", "ᾓ", "ᾔ", "ᾕ", "ᾖ", "ᾗ", "ᾘ", "ᾙ", "ᾚ", "ᾛ", "ᾜ", "ᾝ", "ᾞ", "ᾟ", "ᾠ", "ᾡ",
     "ᾢ", "ᾣ", "ᾤ", "ᾥ", "ᾦ", "ᾧ", "ᾨ", "ᾩ", "ᾪ", "ᾫ", "ᾬ", "ᾭ", "ᾮ", "ᾯ", "ᾰ", "ᾱ",
     "ᾲ", "ᾳ", "ᾴ", "ᾶ", "ᾷ", "Ᾰ", "Ᾱ", "Ὰ", "Ά", "ᾼ", "ι", "ῂ", "ῃ", "ῄ", "ῆ", "ῇ",
     "Ὲ", "Έ", "Ὴ", "Ή", "ῌ", "ῐ", "ῑ", "ῒ", "ΐ", "ῖ", "ῗ", "Ῐ", "Ῑ", "Ὶ", "Ί", "ῠ",
     "ῡ", "ῢ", "ΰ", "ῤ", "ῥ", "ῦ", "ῧ", "Ῠ", "Ῡ", "Ὺ", "Ύ", "Ῥ", "ῲ", "ῳ", "ῴ", "ῶ",
     "ῷ", "Ὸ", "Ό", "Ὼ", "Ώ", "ῼ", "ₐ", "ₑ", "ₒ", "ₓ", "ₔ", "ₕ", "ₖ", "ₗ", "ₘ", "ₙ",
     "ₚ", "ₛ", "ₜ", "Ↄ", "ↄ", "Ⓐ", "Ⓑ", "Ⓒ", "Ⓓ", "Ⓔ", "Ⓕ", "Ⓖ", "Ⓗ", "Ⓘ", "Ⓙ", "Ⓚ",
     "Ⓛ", "Ⓜ", "Ⓝ", "Ⓞ", "Ⓟ", "Ⓠ", "Ⓡ", "Ⓢ", "Ⓣ", "Ⓤ", "Ⓥ", "Ⓦ", "Ⓧ", "Ⓨ", "Ⓩ", "ⓐ",
     "ⓑ", "ⓒ", "ⓓ", "ⓔ", "ⓕ", "ⓖ", "ⓗ", "ⓘ", "ⓙ", "ⓚ", "ⓛ", "ⓜ", "ⓝ", "ⓞ", "ⓟ", "ⓠ",
     "ⓡ", "ⓢ", "ⓣ", "ⓤ", "ⓥ", "ⓦ", "ⓧ", "ⓨ", "ⓩ", "Ⲁ", "ⲁ", "Ⲃ", "ⲃ", "Ⲅ", "ⲅ", "Ⲇ",
     "ⲇ", "Ⲉ", "ⲉ", "Ⲋ", "ⲋ", "Ⲍ", "ⲍ", "Ⲏ", "ⲏ", "Ⲑ", "ⲑ", "Ⲓ", "ⲓ", "Ⲕ", "ⲕ", "Ⲗ",
     "ⲗ", "Ⲙ", "ⲙ", "Ⲛ", "ⲛ", "Ⲝ", "ⲝ", "Ⲟ", "ⲟ", "Ⲡ", "ⲡ", "Ⲣ", "ⲣ", "Ⲥ", "ⲥ", "Ⲧ",
     "ⲧ", "Ⲩ", "ⲩ", "Ⲫ", "ⲫ", "Ⲭ", "ⲭ", "Ⲯ", "ⲯ", "Ⲱ", "ⲱ", "Ⲳ", "ⲳ", "Ⲵ", "ⲵ", "Ⲷ",
     "ⲷ", "Ⲹ", "ⲹ", "Ⲻ", "ⲻ", "Ⲽ", "ⲽ", "Ⲿ", "ⲿ", "Ⳁ", "ⳁ", "Ⳃ", "ⳃ", "Ⳅ", "ⳅ", "Ⳇ",
     "ⳇ", "Ⳉ", "ⳉ", "Ⳋ", "ⳋ", "Ⳍ", "ⳍ", "Ⳏ", "ⳏ", "Ⳑ", "ⳑ", "Ⳓ", "ⳓ", "Ⳕ", "ⳕ", "Ⳗ",
     "ⳗ", "Ⳙ", "ⳙ", "Ⳛ", "ⳛ", "Ⳝ", "ⳝ", "Ⳟ", "ⳟ", "Ⳡ", "ⳡ", "Ⳣ", "ⳣ", "ⳤ", "Ⳬ", "ⳬ",
     "Ⳮ", "ⳮ", "Ⳳ", "ⳳ", "Ꚁ", "ꚁ", "Ꚃ", "ꚃ", "Ꚅ", "ꚅ", "Ꚇ", "ꚇ", "Ꚉ", "ꚉ", "Ꚋ", "ꚋ",
     "Ꚍ", "ꚍ", "Ꚏ", "ꚏ", "Ꚑ", "ꚑ", "Ꚓ", "ꚓ", "Ꚕ", "ꚕ", "Ꚗ", "ꚗ", "Ꚙ", "ꚙ", "Ꚛ", "ꚛ",
     "ꚜ", "ꚝ", "Ꞁ", "ꞁ", "Ꞃ", "ꞃ", "Ꞅ", "ꞅ", "Ꞇ", "ꞇ", "Ꞌ", "ꞌ", "Ɥ", "ꞎ", "Ꞑ", "ꞑ",
     "Ꞓ", "ꞓ", "ꞔ", "ꞕ", "Ꞗ", "ꞗ", "Ꞙ", "ꞙ", "Ꞛ", "ꞛ", "Ꞝ", "ꞝ", "Ꞟ", "ꞟ", "Ꞡ", "ꞡ",
     "Ꞣ", "ꞣ", "Ꞥ", "ꞥ", "Ꞧ", "ꞧ", "Ꞩ", "ꞩ", "Ɦ", "Ɜ", "Ɡ", "Ɬ", "Ɪ", "ꞯ", "Ʞ", "Ʇ",
     "Ʝ", "Ꭓ", "Ꞵ", "ꞵ", "Ꞷ", "ꞷ", "Ꞹ", "ꞹ", "Ꞻ", "ꞻ", "Ꞽ", "ꞽ", "Ꞿ", "ꞿ", "Ꟁ", "ꟁ",
     "Ꟃ", "ꟃ", "Ꞔ", "Ʂ", "Ᶎ", "Ꟈ", "ꟈ", "Ꟊ", "ꟊ", "Ꟑ", "ꟑ", "ꟓ", "ꟕ", "Ꟗ", "ꟗ", "Ꟙ",
     "ꟙ", "Ꟶ", "ꟶ", "ꟸ", "ꟹ", "ꟺ", "ꮀ", "ꮁ", "ꮂ", "ꮃ", "ꮄ", "ꮅ", "ꮆ", "ꮇ", "ꮈ", "ꮉ",
     "ꮊ", "ꮋ", "ꮌ", "ꮍ", "ꮎ", "ꮏ", "ꮐ", "ꮑ", "ꮒ", "ꮓ", "ꮔ", "ꮕ", "ꮖ", "ꮗ", "ꮘ", "ꮙ",
     "ꮚ", "ꮛ", "ꮜ", "ꮝ", "ꮞ", "ꮟ", "ꮠ", "ꮡ", "ꮢ", "ꮣ", "ꮤ", "ꮥ", "ꮦ", "ꮧ", "ꮨ", "ꮩ",
     "ꮪ", "ꮫ", "ꮬ", "ꮭ", "ꮮ", "ꮯ", "ꮰ", "ꮱ", "ꮲ", "ꮳ", "ꮴ", "ꮵ", "ꮶ", "ꮷ", "ꮸ", "ꮹ",
     "ꮺ", "ꮻ", "ꮼ", "ꮽ", "ꮾ", "ꮿ"}
CaseIgnorable ==
    {"'", ".", ":", "^", "¨", "­", "¯", "´", "·", "¸", "ʰ", "ʱ", "ʲ", "ʳ", "ʴ", "ʵ",
     "ʶ", "ʷ", "ʸ", "ʹ", "ʺ", "ʻ", "ʼ", "ʽ", "ʾ", "ʿ", "ˀ", "ˁ", "˂", "˃", "˄", "˅",
     "ˆ", "ˇ", "ˈ", "ˉ", "ˊ", "ˋ", "ˌ", "ˍ", "ˎ", "ˏ", "ː", "ˑ", "˒", "˓", "˔", "˕",
     "˖", "˗", "˘", "˙", "˚", "˛", "˜", "˝", "˞", "˟", "ˠ", "ˡ", "ˢ", "ˣ", "ˤ", "˥",
     "˦", "˧", "˨", "˩", "˪", "˫", "ˬ", "˭", "ˮ", "˯", "˰", "˱", "˲", "˳", "˴", "˵",
     "˶", "˷", "˸", "˹", "˺", "˻", "˼", "˽", "˾", "˿", "΄", "΅", "·", "҃", "҄", "҅",
     "҆", "҇", "҈", "҉", "֑", "֒", "֓", "֔", "֕", "֖", "֗", "֘", "֙", "֚", "֛", "֜",
     "֝", "֞", "֟", "֠", "֡", "֢", "֣", "֤", "֥", "֦", "֧", "֨", "֩", "֪", "֫", "֬",
     "֭", "֮", "֯", "ְ", "ֱ", "ֲ", "ֳ", "ִ", "ֵ", "ֶ", "ַ", "ָ", "ֹ", "ֺ", "ֻ", "ּ",
     "ֽ", "ֿ", "ׁ", "ׂ", "ׄ", "ׅ", "ׇ", "״", "ۖ", "ۗ", "ۘ", "ۙ", "ۚ", "ۛ", "ۜ", "۝",
     "۟", "۠", "ۡ", "ۢ", "ۣ", "ۤ", "ۥ", "ۦ", "ۧ", "ۨ", "۪", "۫", "۬", "ۭ", "ަ", "ާ",
     "ި", "ީ", "ު", "ޫ", "ެ", "ޭ", "ޮ", "ޯ", "ް", "߫", "߬", "߭", "߮", "߯", "߰", "߱",
     "߲", "߳", "ߴ", "ߵ", "ߺ", "߽", "࢈", "࢐", "࢑", "࢘", "࢙", "࢚", "࢛", "࢜", "࢝", "࢞",
     "࢟", "ࣉ", "࣊", "࣋", "࣌", "࣍", "࣎", "࣏", "࣐", "࣑", "࣒", "࣓", "ࣔ", "ࣕ", "ࣖ", "ࣗ",
     "ࣘ", "ࣙ", "ࣚ", "ࣛ", "ࣜ", "ࣝ", "ࣞ", "ࣟ", "࣠", "࣡", "࣢", "ࣣ", "ࣤ", "ࣥ", "ࣦ", "ࣧ",
     "ࣨ", "ࣩ", "࣪", "࣫", "࣬", "࣭", "࣮", "࣯", "ࣰ", "ࣱ", "ࣲ", "ࣳ", "ࣴ", "ࣵ", "ࣶ", "ࣷ",
     "ࣸ", "ࣹ", "ࣺ", "ࣻ", "ࣼ", "ࣽ", "ࣾ", "ࣿ", "ঁ", "়", "ু", "ূ", "ৃ", "ৄ", "্", "ৢ",
     "ৣ", "৾", "ઁ", "ં", "઼", "ુ", "ૂ", "ૃ", "ૄ", "ૅ", "ે", "ૈ", "્", "ૢ", "ૣ", "ૺ",
     "ૻ", "ૼ", "૽", "૾", "૿", "ஂ", "ீ", "்", "ಁ", "಼", "ಿ", "ೆ", "ೌ", "್", "ೢ", "ೣ",
     "ඁ", "්", "ි", "ී", "ු", "ූ", "ັ", "ິ", "ີ", "ຶ", "ື", "ຸ", "ູ", "຺", "ົ", "ຼ",
     "ໆ", "່", "້", "໊", "໋", "໌", "ໍ", "ྀ", "ཱྀ", "ྂ", "ྃ", "྄", "྆", "྇", "ྍ", "ྎ",
     "ྏ", "ྐ", "ྑ", "ྒ", "ྒྷ", "ྔ", "ྕ", "ྖ", "ྗ", "ྙ", "ྚ", "ྛ", "ྜ", "ྜྷ", "ྞ", "ྟ",
     "ྠ", "ྡ", "ྡྷ", "ྣ", "ྤ", "ྥ", "ྦ", "ྦྷ", "ྨ", "ྩ", "ྪ", "ྫ", "ྫྷ", "ྭ", "ྮ", "ྯ",
     "ྰ", "ྱ", "ྲ", "ླ", "ྴ", "ྵ", "ྶ", "ྷ", "ྸ", "ྐྵ", "ྺ", "ྻ", "ྼ", "࿆", "ႂ", "ႅ",
     "ႆ", "ႍ", "ႝ", "ჼ", "឴", "឵", "ិ", "ី", "ឹ", "ឺ", "ុ", "ូ", "ួ", "ំ", "៉", "៊",
     "់", "៌", "៍", "៎", "៏", "័", "៑", "្", "៓", "ៗ", "៝", "ᢅ", "ᢆ", "ᢩ", "ᪧ", "᪰",
     "᪱", "᪲", "᪳", "᪴", "᪵", "᪶", "᪷", "᪸", "᪹", "᪺", "᪻", "᪼", "᪽", "᪾", "ᪿ", "ᫀ",
     "᫁", "᫂", "᫃", "᫄", "᫅", "᫆", "᫇", "᫈", "᫉", "᫊", "᫋", "ᫌ", "ᫍ", "ᫎ", "ᮀ", "ᮁ",
     "ᮢ", "ᮣ", "ᮤ", "ᮥ", "ᮨ", "ᮩ", "᮫", "ᮬ", "ᮭ", "᯦", "ᯨ", "ᯩ", "ᯭ", "ᯯ", "ᯰ", "ᯱ",
     "᳐", "᳑", "᳒", "᳔", "᳕", "᳖", "᳗", "᳘", "᳙", "᳚", "᳛", "᳜", "᳝", "᳞", "᳟", "᳠",
     "᳢", "᳣", "᳤", "᳥", "᳦", "᳧", "᳨", "᳭", "᳴", "᳸", "᳹", "ᶛ", "ᶜ", "ᶝ", "ᶞ", "ᶟ",
     "ᶠ", "ᶡ", "ᶢ", "ᶣ", "ᶤ", "ᶥ", "ᶦ", "ᶧ", "ᶨ", "ᶩ", "ᶪ", "ᶫ", "ᶬ", "ᶭ", "ᶮ", "ᶯ",
     "ᶰ", "ᶱ", "ᶲ", "ᶳ", "ᶴ", "ᶵ", "ᶶ", "ᶷ", "ᶸ", "ᶹ", "ᶺ", "ᶻ", "ᶼ", "ᶽ", "ᶾ", "ᶿ",
     "᷀", "᷁", "᷂", "᷃", "᷄", "᷅", "᷆", "᷇", "᷈", "᷉", "᷊", "᷋", "᷌", "᷍", "᷎", "᷏",
     "᷐", "᷑", "᷒", "ᷓ", "ᷔ", "ᷕ", "ᷖ", "ᷗ", "ᷘ", "ᷙ", "ᷚ", "ᷛ", "ᷜ", "ᷝ", "ᷞ", "ᷟ",
     "ᷠ", "ᷡ", "ᷢ", "ᷣ", "ᷤ", "ᷥ", "ᷦ", "ᷧ", "ᷨ", "ᷩ", "ᷪ", "ᷫ", "ᷬ", "ᷭ", "ᷮ", "ᷯ",
     "ᷰ", "ᷱ", "ᷲ", "ᷳ", "ᷴ", "᷵", "᷶", "᷷", "᷸", "᷹", "᷺", "᷻", "᷼", "᷽", "᷾", "᷿",
     "᾽", "᾿", "῀", "῁", "῍", "῎", "῏", "῝", "῞", "῟", "῭", "΅", "`", "´", "῾", "ₐ",
     "ₑ", "ₒ", "ₓ", "ₔ", "ₕ", "ₖ", "ₗ", "ₘ", "ₙ", "ₚ", "ₛ", "ₜ", "⃐", "⃑", "⃒", "⃓",
     "⃔", "⃕", "⃖", "⃗", "⃘", "⃙", "⃚", "⃛", "⃜", "⃝", "⃞", "⃟", "⃠", "⃡", "⃢", "⃣",
     "⃤", "⃥", "⃦", "⃧", "⃨", "⃩", "⃪", "⃫", "⃬", "⃭", "⃮", "⃯", "⃰", "⳯", "⳰", "⳱",
     "ⷠ", "ⷡ", "ⷢ", "ⷣ", "ⷤ", "ⷥ", "ⷦ", "ⷧ", "ⷨ", "ⷩ", "ⷪ", "ⷫ", "ⷬ", "ⷭ", "ⷮ", "ⷯ",
     "ⷰ", "ⷱ", "ⷲ", "ⷳ", "ⷴ", "ⷵ", "ⷶ", "ⷷ", "ⷸ", "ⷹ", "ⷺ", "ⷻ", "ⷼ", "ⷽ", "ⷾ", "ⷿ",
     "゙", "゚", "゛", "゜", "ゝ", "ゞ", "ー", "ヽ", "ヾ", "ꓸ", "ꓹ", "ꓺ", "ꓻ", "ꓼ", "ꓽ", "ꚜ",
     "ꚝ", "ꚞ", "ꚟ", "꛰", "꛱", "ꞈ", "꞉", "꞊", "ꟲ", "ꟳ", "ꟴ", "ꟸ", "ꟹ", "꣄", "ꣅ", "꣠",
     "꣡", "꣢", "꣣", "꣤", "꣥", "꣦", "꣧", "꣨", "꣩", "꣪", "꣫", "꣬", "꣭", "꣮", "꣯", "꣰",
     "꣱", "ꣿ", "ꦀ", "ꦁ", "ꦂ", "꦳", "ꦶ", "ꦷ", "ꦸ", "ꦹ", "ꦼ", "ꦽ", "ꧏ", "ꧥ", "ꧦ", "ꪰ",
     "ꪲ", "ꪳ", "ꪴ", "ꪷ", "ꪸ", "ꪾ", "꪿", "꫁", "ꫝ", "ꫬ", "ꫭ", "ꫳ", "ꫴ", "꫶", "ꯥ", "ꯨ",
     "꯭", "﮲", "﮳", "﮴", "﮵", "﮶", "﮷", "﮸", "﮹", "﮺", "﮻", "﮼", "﮽", "﮾", "﮿", "﯀",
     "﯁", "﯂", "﻿", "ﾞ", "ﾟ", "￣", "￹", "￺", "￻"}

\* str.isdecimal(): the digits 0 to 9 of each script.  They are the digits of
\* int() and the \d of a regular expression.
Decimals ==
    <<<<"0", "1", "2", "3", "4", "5", "6", "7", "8", "9">>,
      <<"۰", "۱", "۲", "۳", "۴", "۵", "۶", "۷", "۸", "۹">>,
      <<"߀", "߁", "߂", "߃", "߄", "߅", "߆", "߇", "߈", "߉">>,
      <<"০", "১", "২", "৩", "৪", "৫", "৬", "৭", "৮", "৯">>,
      <<"૦", "૧", "૨", "૩", "૪", "૫", "૬", "૭", "૮", "૯">>,
      <<"௦", "௧", "௨", "௩", "௪", "௫", "௬", "௭", "௮", "௯">>,
      <<"೦", "೧", "೨", "೩", "೪", "೫", "೬", "೭", "೮", "೯">>,
      <<"෦", "෧", "෨", "෩", "෪", "෫", "෬", "෭", "෮", "෯">>,
      <<"໐", "໑", "໒", "໓", "໔", "໕", "໖", "໗", "໘", "໙">>,
      <<"႐", "႑", "႒", "႓", "႔", "႕", "႖", "႗", "႘", "႙">>,
      <<"០", "១", "២", "៣", "៤", "៥", "៦", "៧", "៨", "៩">>,
      <<"᧐", "᧑", "᧒", "᧓", "᧔", "᧕", "᧖", "᧗", "᧘", "᧙">>,
      <<"᪀", "᪁", "᪂", "᪃", "᪄", "᪅", "᪆", "᪇", "᪈", "᪉">>,
      <<"᪐", "᪑", "᪒", "᪓", "᪔", "᪕", "᪖", "᪗", "᪘", "᪙">>,
      <<"᮰", "᮱", "᮲", "᮳", "᮴", "᮵", "᮶", "᮷", "᮸", "᮹">>,
      <<"꣐", "꣑", "꣒", "꣓", "꣔", "꣕", "꣖", "꣗", "꣘", "꣙">>,
      <<"꧐", "꧑", "꧒", "꧓", "꧔", "꧕", "꧖", "꧗", "꧘", "꧙">>,
      <<"꧰", "꧱", "꧲", "꧳", "꧴", "꧵", "꧶", "꧷", "꧸", "꧹">>,
      <<"꯰", "꯱", "꯲", "꯳", "꯴", "꯵", "꯶", "꯷", "꯸", "꯹">>>>

\* The characters of str.isdigit() that are not decimal: int() has no value
\* for them.
OtherDigits ==
    {"²", "³", "¹", "᧚", "₀", "₁", "₂", "₃", "₄", "₅", "₆", "₇", "₈", "₉", "⒈", "⒉",
     "⒊", "⒋", "⒌", "⒍", "⒎", "⒏", "⒐", "⓪", "⓵", "⓶", "⓷", "⓸", "⓹", "⓺", "⓻", "⓼",
     "⓽", "⓿", "➀", "➁", "➂", "➃", "➄", "➅", "➆", "➇", "➈", "➊", "➋", "➌", "➍", "➎",
     "➏", "➐", "➑", "➒"}

UpperSet == {Uppers[i] : i \in 1..Len(Uppers)}
DigitSet == {Digits[i] : i \in 1..Len(Digits)}
CapitalSet == {Capitals[i] : i \in 1..Len(Capitals)}
DecimalSet == UNION {{Decimals[k][d] : d \in 1..10} : k \in 1..Len(Decimals)}
LowerOf ==
    [c \in UpperSet \cup CapitalSet |->
        IF c \in UpperSet
        THEN Lowers[CHOOSE i \in 1..Len(Uppers) : Uppers[i] = c]
        ELSE Smalls[CHOOSE i \in 1..Len(Capitals) : Capitals[i] = c]]
ValueOf == [c \in DigitSet |-> (CHOOSE i \in 1..Len(Digits) : Digits[i] = c) - 1]
DecimalValueOf ==
    [c \in DecimalSet |->
        (CHOOSE d \in 1..10 : \E k \in 1..Len(Decimals) : Decimals[k][d] = c) - 1]

\* str.lower() of a string of one character.
LowerChar(c) ==
    CASE c \in UpperSet \/ c \in CapitalSet -> LowerOf[c]
      [] c \notin UpperSet /\ c \notin CapitalSet /\ c \notin NoSmall -> c

\* The capital sigma at position i ends a word: the nearest character before
\* it that is not case-ignorable is cased, and the nearest such character
\* after it, when there is one, is not.
FinalSigma(s, i) ==
    LET solid == {j \in 1..Len(s) : s[j] \notin CaseIgnorable}
        before == {j \in solid : j < i}
        after == {j \in solid : j > i}
    IN  /\ before # {}
        /\ s[CHOOSE j \in before : \A k \in before : k <= j] \in Cased
        /\ \/ after = {}
           \/ s[CHOOSE j \in after : \A k \in after : j <= k] \notin Cased

\* str.lower()
Lower(s) ==
    [i \in 1..Len(s) |->
        IF s[i] = "Σ"
        THEN IF FinalSigma(s, i) THEN "ς" ELSE "σ"
        ELSE LowerChar(s[i])]

RECURSIVE SplitFrom(_, _, _)
SplitFrom(s, cur, acc) ==
    IF s = <<>>
    THEN IF cur = <<>> THEN acc ELSE Append(acc, cur)
    ELSE IF Head(s) \in Whitespace
         THEN SplitFrom(Tail(s), <<>>, IF cur = <<>> THEN acc ELSE Append(acc, cur))
         ELSE SplitFrom(Tail(s), Append(cur, Head(s)), acc)

\* str.split(): the maximal runs of non-whitespace characters.
Split(s) == SplitFrom(s, <<>>, <<>>)

RECURSIVE RStripS(_)
\* str.rstrip('s'): every trailing 's' is removed.
RStripS(w) ==
    IF w # <<>> /\ w[Len(w)] = "s" THEN RStripS(SubSeq(w, 1, Len(w) - 1)) ELSE w

\* str.isdecimal() and str.isdigit() of a string of one character.
IsDecimalChar(c) == c \in DecimalSet
IsDigitChar(c) == c \in DecimalSet \/ c \in OtherDigits
DigitVal(c) == DecimalValueOf[c]

\* str.isdigit(): non-empty and every character a digit.
IsDigit(w) == w # <<>> /\ \A i \in 1..Len(w) : IsDigitChar(w[i])

\* int() reads the decimal digits a string starts with: how many there are.
DecimalRun(w) ==
    LET other == {i \in 1..Len(w) : ~IsDecimalChar(w[i])}
    IN  IF other = {} THEN Len(w) ELSE (CHOOSE i \in other : \A j \in other : i <= j) - 1

\* int() of a string of decimal digits: the value of the digits from the
\* first that is not a zero.
ToInt(w) ==
    LET RECURSIVE Value(_)
        Value(v) ==
            IF v = <<>> THEN 0
            ELSE 10 * Value(SubSeq(v, 1, Len(v) - 1)) + DigitVal(v[Len(v)])
        significant == {i \in 1..Len(w) : DigitVal(w[i]) # 0}
    IN  IF significant = {} THEN 0
        ELSE Value(SubSeq(w, CHOOSE i \in significant : \A j \in significant : i <= j,
                          Len(w)))

\* repr() of a string of printable characters without a quote, as the
\* message of int() holds it: cut after ReprLimit characters ("%.200R").
ReprLimit == 200
Repr(w) ==
    LET r == <<"'">> \o w \o <<"'">>
    IN  IF Len(r) > ReprLimit THEN SubSeq(r, 1, ReprLimit) ELSE r

RECURSIVE Str(_)
\* str() of a natural number.
Str(n) == IF n < 10 THEN <<Digits[n + 1]>> ELSE Str(n \div 10) \o <<Digits[(n % 10) + 1]>>

\* sys.get_int_max_str_digits(): int() refuses a longer run of digits.
MaxStrDigits == 4300

\* The words the parser compares tokens with.
W_every == <<"e","v","e","r","y">>
W_at == <<"a","t">>
W_second == <<"s","e","c","o","n","d">>
W_minute == <<"m","i","n","u","t","e">>
W_hour == <<"h","o","u","r">>
W_day == <<"d","a","y">>
W_week == <<"w","e","e","k">>
W_monday == <<"m","o","n","d","a","y">>
W_tuesday == <<"t","u","e","s","d","a","y">>
W_wednesday == <<"w","e","d","n","e","s","d","a","y">>
W_thursday == <<"t","h","u","r","s","d","a","y">>
W_friday == <<"f","r","i","d","a","y">>
W_saturday == <<"s","a","t","u","r","d","a","y">>
W_sunday == <<"s","u","n","d","a","y">>

\* The day names in datetime.weekday() order (monday = 0).
Weekdays == <<W_monday, W_tuesday, W_wednesday, W_thursday, W_friday, W_saturday, W_sunday>>
IsWeekday(w) == \E i \in 1..Len(Weekdays) : Weekdays[i] = w
WeekdayIndex(w) == (CHOOSE i \in 1..Len(Weekdays) : Weekdays[i] = w) - 1

(***************************************************************************)
(* schedule.Job.at(time_str) for a daily or weekday job.                   *)
(***************************************************************************)
\* The format check ^[0-2]\d:[0-5]\d(:[0-5]\d)?$ .
TimeFormatOK(w) ==
    /\ Len(w) \in {5, 8}
    /\ w[1] \in {"0", "1", "2"}
    /\ IsDecimalChar(w[2])
    /\ w[3] = ":"
    /\ w[4] \in {"0", "1", "2", "3", "4", "5"}
    /\ IsDecimalChar(w[5])
    /\ Len(w) = 8 =>
         /\ w[6] = ":"
         /\ w[7] \in {"0", "1", "2", "3", "4", "5"}
         /\ IsDecimalChar(w[8])

TimeHour(w) == ToInt(SubSeq(w, 1, 2))
TimeMinute(w) == ToInt(SubSeq(w, 4, 5))
TimeSecond(w) == IF Len(w) = 8 THEN ToInt(SubSeq(w, 7, 8)) ELSE 0

\* at() accepts the string: the format matches and the hour is at most 23.
AtAccepts(w) == TimeFormatOK(w) /\ TimeHour(w) <= 23

\* The time of day at() stores, as seconds since midnight.
AtSeconds(w) == TimeHour(w) * HourSecs + TimeMinute(w) * MinuteSecs + TimeSecond(w)

(***************************************************************************)
(* Scheduler._schedule_task: the phrase to a job definition or an error.   *)
(***************************************************************************)
Rejected(err, text, arg) ==
    [ok |-> FALSE, err |-> err, text |-> text, arg |-> arg]

Accepted(interval, unit, at_time, start_day) ==
    [ok |-> TRUE, interval |-> interval, unit |-> unit,
     at_time |-> at_time, start_day |-> start_day]

\* `every(interval).<unit>s` : a fixed-interval job.
FixedUnits == {W_second, W_minute, W_hour, W_day, W_week}
UnitName(u) ==
    CASE u = W_second -> "seconds"
      [] u = W_minute -> "minutes"
      [] u = W_hour -> "hours"
      [] u = W_day -> "days"
      [] u = W_week -> "weeks"

\* The optional `at <time>` clause of a daily or weekday phrase.
WithAt(parts, unit, start_day) ==
    IF Len(parts) >= 4 /\ parts[3] = W_at
    THEN IF AtAccepts(parts[4])
         THEN Accepted(1, unit, AtSeconds(parts[4]), start_day)
         ELSE Rejected("ScheduleValueError", "Invalid time format", parts[4])
    ELSE Accepted(1, unit, None, start_day)

ParseSpec(schedule_spec) ==
    LET spec == Lower(schedule_spec)
        parts == Split(spec)
    IN  IF parts = <<>> \/ parts[1] # W_every
        THEN Rejected("ValueError", "Invalid schedule specification", schedule_spec)
        ELSE IF Len(parts) >= 3 /\ IsDigit(parts[2])
        THEN IF DecimalRun(parts[2]) > MaxStrDigits
             THEN Rejected("ValueError", "Exceeds the limit",
                           <<"v","a","l","u","e"," ","h","a","s"," ">>
                           \o Str(DecimalRun(parts[2]))
                           \o <<" ","d","i","g","i","t","s",";"," ","u","s","e"," ","s","y","s",".","s","e","t","_","i","n","t","_","m","a","x","_","s","t","r","_","d","i","g","i","t","s","(",")"," ","t","o"," ","i","n","c","r","e","a","s","e"," ","t","h","e"," ","l","i","m","i","t">>)
             ELSE IF DecimalRun(parts[2]) < Len(parts[2])
             THEN Rejected("ValueError", "invalid literal for int() with base 10",
                           Repr(parts[2]))
             ELSE
             LET interval == ToInt(parts[2])
                 unit == RStripS(parts[3])
             IN  IF unit \in FixedUnits
                 THEN Accepted(interval, UnitName(unit), None, None)
                 ELSE Rejected("ValueError", "Unknown time unit", unit)
        ELSE IF Len(parts) >= 2
        THEN LET unit == RStripS(parts[2])
             IN  IF unit \in {W_second, W_minute, W_hour}
                 THEN Accepted(1, UnitName(unit), None, None)
                 ELSE IF unit = W_day
                 THEN WithAt(parts, "days", None)
                 ELSE IF IsWeekday(unit)
                 THEN WithAt(parts, "weeks", WeekdayIndex(unit))
                 ELSE Rejected("ValueError", "Unknown schedule unit", unit)
        ELSE Rejected("ValueError", "Invalid schedule specification", schedule_spec)

\* The texts of the errors _schedule_task raises, and of the errors of at().
MessageText ==
    ("Invalid schedule specification" :>
        <<"I","n","v","a","l","i","d"," ","s","c","h","e","d","u","l","e"," ","s","p","e","c","i","f","i","c","a","t","i","o","n">>)
    @@ ("Unknown time unit" :>
        <<"U","n","k","n","o","w","n"," ","t","i","m","e"," ","u","n","i","t">>)
    @@ ("Unknown schedule unit" :>
        <<"U","n","k","n","o","w","n"," ","s","c","h","e","d","u","l","e"," ","u","n","i","t">>)
    @@ ("Exceeds the limit" :>
        <<"E","x","c","e","e","d","s"," ","t","h","e"," ","l","i","m","i","t"," ","(">>
        \o Str(MaxStrDigits)
        \o <<" ","d","i","g","i","t","s",")"," ","f","o","r"," ","i","n","t","e","g","e","r"," ","s","t","r","i","n","g"," ","c","o","n","v","e","r","s","i","o","n">>)
    @@ ("invalid literal for int() with base 10" :>
        <<"i","n","v","a","l","i","d"," ","l","i","t","e","r","a","l"," ","f","o","r"," ","i","n","t","(",")"," ","w","i","t","h"," ","b","a","s","e"," ","1","0">>)
    @@ ("Invalid time format" :>
        <<"I","n","v","a","l","i","d"," ","t","i","m","e"," ","f","o","r","m","a","t"," ","f","o","r"," ","a"," ","d","a","i","l","y"," ","j","o","b"," ","(","v","a","l","i","d"," ","f","o","r","m","a","t"," ","i","s"," ","H","H",":","M","M","(",":","S","S",")","?",")">>)
    @@ ("Invalid number of hours" :>
        <<"I","n","v","a","l","i","d"," ","n","u","m","b","e","r"," ","o","f"," ","h","o","u","r","s">>)

\* The message of the error a rejected phrase raises: the f-strings of
\* _schedule_task, the two messages of int(), and the two messages of at() (a bad
\* format; an hour, as int() and str.format() print it, that is not between
\* 0 and 23).
Message(p) ==
    IF p.err = "ValueError"
    THEN MessageText[p.text] \o <<":", " ">> \o p.arg
    ELSE IF ~TimeFormatOK(p.arg)
    THEN MessageText["Invalid time format"]
    ELSE MessageText["Invalid number of hours"] \o <<" ", "(">> \o Str(TimeHour(p.arg))
         \o <<" ","i","s"," ","n","o","t"," ","b","e","t","w","e","e","n"," ","0"," ","a","n","d"," ","2","3",")">>

(***************************************************************************)
(* schedule.Job: the period, the due test and the next run.                *)
(***************************************************************************)
UnitSecs(unit) ==
    CASE unit = "seconds" -> 1
      [] unit = "minutes" -> MinuteSecs
      [] unit = "hours" -> HourSecs
      [] unit = "days" -> DaySecs
      [] unit = "weeks" -> WeekSecs

\* datetime.timedelta(**{unit: interval})
Period(job) == job.interval * UnitSecs(job.unit)

\* datetime.weekday() and datetime.time() of an instant.
Weekday(t) == (t \div DaySecs) % 7
TimeOfDay(t) == t % DaySecs
\* datetime.replace(hour, minute, second)
ReplaceTime(t, tod) == t - TimeOfDay(t) + tod

\* Job._schedule_next_run at time t (job.last_run already set by Job.run).
NextRun(job, t) ==
    LET period == Period(job)
        n0 == t + period
        n1 == IF job.start_day # None
              THEN LET d == job.start_day - Weekday(n0)
                       days_ahead == IF d <= 0 THEN d + 7 ELSE d
                   IN  n0 + days_ahead * DaySecs - period
              ELSE n0
        n2 == IF job.at_time # None
              THEN LET r == ReplaceTime(n1, job.at_time)
                   IN  IF /\ (job.last_run = None \/ r - job.last_run > period)
                          /\ job.unit = "days"
                          /\ job.at_time > TimeOfDay(t)
                          /\ job.interval = 1
                       THEN r - DaySecs
                       ELSE r
              ELSE n1
    IN  IF job.start_day # None /\ job.at_time # None /\ (n2 - t) \div DaySecs >= 7
        THEN n2 - period
        ELSE n2

\* Job.should_run
ShouldRun(job, t) == t >= job.next_run

\* Job.do: the job as every(...)...do(task.execute) leaves it at time t.
NewJob(p, t) ==
    LET j == [interval |-> p.interval, unit |-> p.unit, at_time |-> p.at_time,
              start_day |-> p.start_day, last_run |-> None, next_run |-> None]
    IN  [j EXCEPT !.next_run = NextRun(j, t)]

\* Job.run at time t, after job_func has returned.
JobAfterRun(job, t) ==
    LET j == [job EXCEPT !.last_run = t]
    IN  [j EXCEPT !.next_run = NextRun(j, t)]

(***************************************************************************)
(* Task.                                                                   *)
(***************************************************************************)
\* The **kwargs the task called `name` is constructed with: each task has
\* its own.
Parameters(name) == [value |-> name]

\* Task.__init__, with the job _schedule_task binds to it.  `registered` is
\* not a field of Task: it records when add_task scheduled the task.
NewTask(name, schedule_spec, enabled, job, t) ==
    [name |-> name, schedule_spec |-> schedule_spec, enabled |-> enabled,
     parameters |-> Parameters(name),
     last_run |-> None, run_count |-> 0, job |-> job, registered |-> t]

\* What the action called by Task.execute does: it returns ("ok"), raises an
\* Exception ("raise"), or raises a BaseException that is no Exception, such
\* as KeyboardInterrupt or SystemExit ("interrupt").
Outcomes == {"ok", "raise", "interrupt"}

\* Task.execute without its try/except: whatever the action raises leaves it.
PropagatesUncaught(outcome) == outcome # "ok"

\* `except Exception` lets through what is not an Exception.
Propagates(outcome) == outcome = "interrupt"

\* Task.execute disabling the task whose action failed.
TaskAfterActionDisabling(task, outcome, t) ==
    IF outcome = "ok"
    THEN [task EXCEPT !.last_run = t, !.run_count = @ + 1]
    ELSE [task EXCEPT !.enabled = FALSE]

\* Task.execute recording the time before it calls the action.
TaskAfterActionTimed(task, outcome, t) ==
    IF outcome = "ok"
    THEN [task EXCEPT !.last_run = t, !.run_count = @ + 1]
    ELSE [task EXCEPT !.last_run = t]

\* Task.execute from the call of the action on.
TaskAfterAction(task, outcome, t) ==
    IF outcome = "ok"
    THEN [task EXCEPT !.last_run = t, !.run_count = @ + 1]
    ELSE task

\* The calls of the action Task.execute makes, each with its arguments.
ActionCalls(task) == IF task.enabled THEN <<task.parameters>> ELSE <<>>

\* Task.execute leaving a task alone until its job is due.
ExecuteWhenDue(task, outcome, t) ==
    IF ~task.enabled \/ ~ShouldRun(task.job, t)
    THEN task
    ELSE TaskAfterAction(task, outcome, t)

\* Task.execute without the test of `enabled`.
ExecuteUnconditional(task, outcome, t) == TaskAfterAction(task, outcome, t)

\* Task.execute as a whole.
Execute(task, outcome, t) ==
    IF ~task.enabled THEN task ELSE TaskAfterAction(task, outcome, t)

(***************************************************************************)
(* yasched.timing: Time, TimeSlot and Periodic.  A Time is the number of   *)
(* seconds from 1970-01-01 00:00:00 to its naive wall-clock reading; tz is *)
(* the host's local zone: the offset from UTC in seconds of a zone that    *)
(* keeps one offset, or NewYork.                                           *)
(***************************************************************************)
\* America/New_York, a zone with daylight saving time, is named by a number
\* that is the offset of no zone.  Its clocks are on EDT (UTC-4) from
\* 2024-03-10 07:00:00 UTC until 2024-11-03 06:00:00 UTC and from
\* 2025-03-09 07:00:00 UTC until 2025-11-02 06:00:00 UTC, and on EST (UTC-5)
\* in the winters from 2024 to 2028 and in the first months of 1970 to 1973.
NewYork == 1
EDT ==
    {[begins |-> 19792 * DaySecs + 7 * HourSecs, ends |-> 20030 * DaySecs + 6 * HourSecs],
     [begins |-> 20156 * DaySecs + 7 * HourSecs, ends |-> 20394 * DaySecs + 6 * HourSecs]}

\* The local zones of the hosts: UTC, CET (UTC+1), EST (UTC-5) and
\* America/New_York.
TzOffsets == {0, HourSecs, 0 - 5 * HourSecs, NewYork}

\* time.localtime: the offset from UTC that zone tz has at timestamp x.
UtcOffset(tz, x) ==
    IF tz = NewYork
    THEN IF \E summer \in EDT : summer.begins <= x /\ x < summer.ends
         THEN 0 - 4 * HourSecs
         ELSE 0 - 5 * HourSecs
    ELSE tz

\* Time(1970, 1, day, 0, 0, 0): datetime() raises ValueError unless January
\* has such a day.
ValidDay(day) == day \in 1..31
January1970(day) == (day - 1) * DaySecs

\* datetime.fromtimestamp() gives the local wall-clock reading of x.
FromTimestamp(x, tz) == x + UtcOffset(tz, x)

\* datetime.timestamp() of a naive datetime (fold = 0) reads it in the local
\* zone: a reading the clocks show twice is the earlier of the two instants,
\* and a reading they skip is taken with the offset in force before the jump.
Timestamp(t, tz) ==
    LET a == UtcOffset(tz, t)
        u1 == t - a
        t1 == FromTimestamp(u1, tz)
        b == IF t1 = t THEN UtcOffset(tz, u1 - DaySecs) ELSE t1 - u1
        u2 == t - b
    IN  IF t1 = t /\ a = b THEN u1
        ELSE IF FromTimestamp(u2, tz) = t THEN u2
        ELSE IF t1 = t THEN u1
        ELSE IF u1 > u2 THEN u1 ELSE u2

\* Time.__add__(Time): the sum of the two timestamps, read as a local time.
TimeAdd(t, other, tz) == FromTimestamp(Timestamp(t, tz) + Timestamp(other, tz), tz)

\* Time.__add__(int): timedelta arithmetic on the naive datetime.
TimeAddSeconds(t, seconds) == t + seconds

\* Moment.__add__(int): timedelta arithmetic on the naive datetime.  A Moment
\* is counted in seconds as a Time is.
MomentAddSeconds(t, seconds) == t + seconds

\* Moment.__add__(Moment): the fields of `other` are read as a duration.
MomentAdd(t, other) ==
    LET days_to_add == (other.year - 1970) * 365 + (other.month - 1) * 30 + (other.day - 1)
        total_seconds == days_to_add * DaySecs + other.hour * HourSecs
                             + other.minute * MinuteSecs + other.second
    IN  MomentAddSeconds(t, total_seconds)

\* TimeSlot(start, end) and TimeSlot.duration(); nothing is validated.
TimeSlot(start, end) == [start |-> start, end |-> end]
Duration(slot) == slot.end - slot.start

\* Periodic.__init__ stores its three arguments as they are.
Periodic(start, end, repetitions) ==
    [start |-> start, end |-> end, repetitions |-> repetitions]

\* The boundary test of get_occurrences: Time.__gt__.
Exceeds(current_start, end_start) == current_start > end_start

\* range(n) additions of the interval in from_count.
RECURSIVE AddTimesOnceMore(_, _, _, _)
AddTimesOnceMore(t, other, n, tz) ==
    IF n < 0 THEN t ELSE AddTimesOnceMore(TimeAdd(t, other, tz), other, n - 1, tz)
RECURSIVE AddTimes(_, _, _, _)
AddTimes(t, other, n, tz) ==
    IF n <= 0 THEN t ELSE AddTimes(TimeAdd(t, other, tz), other, n - 1, tz)

\* No Periodic yet.  pc is the position of the thread that works on the
\* Periodic: "none", "ready" (constructed), "while" and "for" (in the loops of
\* get_occurrences), "returned", "raised".  rep is the index of the offset the
\* for loop is at.  call is the method the thread is in, history the values
\* the calls on this Periodic returned so far, and made the constructor that
\* built it, with its number argument.
NoPeriodic ==
    [pc |-> "none", tz |-> 0, periodic |-> <<>>, current_start |-> 0,
     current_end |-> 0, occurrences |-> <<>>, rep |-> 0, result |-> "",
     call |-> "", history |-> <<>>, made |-> [by |-> "", n |-> 0]]

(***************************************************************************)
(* The calendar of datetime.date / datetime.time / datetime.datetime that  *)
(* Day, DayTime and Time wrap: the proleptic Gregorian calendar, days      *)
(* counted from 0001-01-01 = 1.                                            *)
(***************************************************************************)
MinYear == 1
MaxYear == 9999
DaysInMonthTable == <<31, 28, 31, 30, 31, 30, 31, 31, 30, 31, 30, 31>>
DaysBeforeMonthTable == <<0, 31, 59, 90, 120, 151, 181, 212, 243, 273, 304, 334>>

IsLeap(year) == year % 4 = 0 /\ (year % 100 # 0 \/ year % 400 = 0)

DaysBeforeYear(year) ==
    LET y == year - 1 IN y * 365 + (y \div 4) - (y \div 100) + (y \div 400)

DaysInMonth(year, month) ==
    IF month = 2 /\ IsLeap(year) THEN 29 ELSE DaysInMonthTable[month]

DaysBeforeMonth(year, month) ==
    DaysBeforeMonthTable[month] + (IF month > 2 /\ IsLeap(year) THEN 1 ELSE 0)

\* date(year, month, day) raises ValueError unless the fields are a date.
ValidDate(year, month, day) ==
    /\ year \in MinYear..MaxYear
    /\ month \in 1..12
    /\ day \in 1..DaysInMonth(year, month)

\* time(hour, minute, second) raises ValueError unless the fields are a time
\* of the day.
ValidTimeOfDayLenient(hour, minute, second) ==
    hour \in 0..24 /\ minute \in 0..60 /\ second \in 0..60
ValidTimeOfDay(hour, minute, second) ==
    hour \in 0..23 /\ minute \in 0..59 /\ second \in 0..59

\* date.toordinal().
ToOrdinal(year, month, day) ==
    DaysBeforeYear(year) + DaysBeforeMonth(year, month) + day

\* The year of the 400-year cycle is a leap year: the last of its 4-year
\* cycle, unless it ends a century that does not end the 400-year cycle.
LeapEveryFourth(n1, n4, n100) == n1 = 3
LeapInCycle(n1, n4, n100) == n1 = 3 /\ (n4 # 24 \/ n100 = 3)

\* date.fromordinal(n).
FromOrdinal(ordinal) ==
    LET n0 == ordinal - 1
        n400 == n0 \div 146097
        r400 == n0 % 146097
        n100 == r400 \div 36524
        r100 == r400 % 36524
        n4 == r100 \div 1461
        r4 == r100 % 1461
        n1 == r4 \div 365
        n == r4 % 365
        year == n400 * 400 + 1 + n100 * 100 + n4 * 4 + n1
    IN  IF n1 = 4 \/ n100 = 4
        THEN [year |-> year - 1, month |-> 12, day |-> 31]
        ELSE LET leapyear == LeapInCycle(n1, n4, n100)
                 guess == (n + 50) \div 32
                 before == DaysBeforeMonthTable[guess]
                               + (IF guess > 2 /\ leapyear THEN 1 ELSE 0)
                 month == IF before > n THEN guess - 1 ELSE guess
                 preceding ==
                     IF before > n
                     THEN before - (DaysInMonthTable[month]
                                        + (IF month = 2 /\ leapyear THEN 1 ELSE 0))
                     ELSE before
             IN  [year |-> year, month |-> month, day |-> n - preceding + 1]

\* Day(year, month, day), and Day.add_days(n): date + timedelta(days=n), which
\* raises OverflowError outside the years MinYear..MaxYear.
Day(year, month, day) == [year |-> year, month |-> month, day |-> day]
DayOrdinal(d) == ToOrdinal(d.year, d.month, d.day)
Representable(ordinal) ==
    ordinal \in ToOrdinal(MinYear, 1, 1)..ToOrdinal(MaxYear, 12, 31)
AddDays(d, n) == FromOrdinal(DayOrdinal(d) + n)

\* Time(year, month, day, hour, minute, second) as the fields it was built
\* from, as its number of seconds from 1970-01-01 00:00:00, and back.
EpochOrdinal == 719163
Fields(year, month, day, hour, minute, second) ==
    [year |-> year, month |-> month, day |-> day,
     hour |-> hour, minute |-> minute, second |-> second]
TimeOf(f) ==
    (ToOrdinal(f.year, f.month, f.day) - EpochOrdinal) * DaySecs
        + f.hour * HourSecs + f.minute * MinuteSecs + f.second
FieldsOf(t) ==
    LET ymd == FromOrdinal((t \div DaySecs) + EpochOrdinal)
        r == t % DaySecs
    IN  Fields(ymd.year, ymd.month, ymd.day,
               r \div HourSecs, (r % HourSecs) \div MinuteSecs, r % MinuteSecs)

(***************************************************************************)
(* The state: the Scheduler instances over the one job list of the         *)
(* schedule module, the clock, and the thread that polls.                  *)
(***************************************************************************)
Schedulers == {1, 2}
Names == {"a", "b"}
\* Enough object identities for every Task that can be alive: one per
\* registered name and as many again for removed tasks a poll still refers to.
TaskIds == 1..(2 * Cardinality(Schedulers) * Cardinality(Names))

\* "every 60 seconds", "every day at 00:01", "every banana"
EverySeconds == <<"e","v","e","r","y"," ","6","0"," ","s","e","c","o","n","d","s">>
EveryDayAt == <<"e","v","e","r","y"," ","d","a","y"," ","a","t"," ","0","0",":","0","1">>
EveryBanana == <<"e","v","e","r","y"," ","b","a","n","a","n","a">>
\* "every 2 minutes", "every 1 day"
EveryTwoMinutes == <<"e","v","e","r","y"," ","2"," ","m","i","n","u","t","e","s">>
EveryOneDay == <<"e","v","e","r","y"," ","1"," ","d","a","y">>
\* "invalid spec", "every day at 25:00"
InvalidSpec == <<"i","n","v","a","l","i","d"," ","s","p","e","c">>
EveryDayAt25 == <<"e","v","e","r","y"," ","d","a","y"," ","a","t"," ","2","5",":","0","0">>

VARIABLES
    now,        \* datetime.now()
    heap,       \* the Task objects alive, each with the Job bound to it (task._job)
    tasks,      \* tasks[s]: Scheduler.tasks of instance s, name -> Task object
    jobs,       \* schedule.default_scheduler.jobs, shared by every instance
    running,    \* running[s]: Scheduler._running of instance s
    pc,         \* where the polling thread is
    mode,       \* what it was called through: "run" or "run_pending"
    poller,     \* the instance it was called on
    due,        \* the runnable jobs of the poll cycle, in the order they run in
    ran,        \* what happened to the jobs of the cycle that have run so far
    ev,         \* the call the last step made or finished, and its result
    per,        \* the Periodic at hand and the get_occurrences() call on it
    caller,     \* where a second thread is inside add_task, remove_task or clear
    interval    \* the interval run() was called with

\* The state of the scheduler, and the whole state.
svars == <<now, heap, tasks, jobs, running, pc, mode, poller, due, ran, ev, caller, interval>>
vars == <<now, heap, tasks, jobs, running, pc, mode, poller, due, ran, ev, per, caller, interval>>

\* The second thread is in none of the three methods.
NoCall == [at |-> "", s |-> 0, name |-> "", id |-> 0]

\* run(interval=1.0): the default, in seconds.
DefaultInterval == 1

\* The jobs of the cycle still to run.
Pending == SubSeq(due, Len(ran) + 1, Len(due))

\* `log` is what a poll cycle did, when the step ends one; the phrase and
\* the message of the error, when the step is a phrase being rejected; the
\* calls of the action, when the step is a direct Task.execute().
Event(op, res) == [op |-> op, res |-> res, log |-> <<>>]

Range(f) == {f[x] : x \in DOMAIN f}
Restrict(f, S) == [x \in (DOMAIN f) \cap S |-> f[x]]

\* The Task objects something still refers to; the others are garbage.
Referenced(ts, js, pend) ==
    UNION {Range(ts[s]) : s \in DOMAIN ts} \cup Range(js) \cup Range(pend)
Collect(h, ts, js, pend) == Restrict(h, Referenced(ts, js, pend))

FreeIds == TaskIds \ DOMAIN heap
NewId == CHOOSE i \in FreeIds : \A j \in FreeIds : i <= j

\* list.remove(job), ignoring a job that is not in the list (cancel_job).
RECURSIVE Without(_, _)
Without(js, id) ==
    IF js = <<>> THEN <<>>
    ELSE IF Head(js) = id THEN Tail(js)
    ELSE <<Head(js)>> \o Without(Tail(js), id)

RECURSIVE InsertSorted(_, _, _)
\* id after every element whose next_run is not later (sorted() is stable).
InsertSorted(h, sorted, id) ==
    IF sorted = <<>> THEN <<id>>
    ELSE IF h[id].job.next_run < h[Head(sorted)].job.next_run
         THEN <<id>> \o sorted
         ELSE <<Head(sorted)>> \o InsertSorted(h, Tail(sorted), id)

RECURSIVE SortJobs(_, _)
SortJobs(h, js) ==
    IF js = <<>> THEN <<>>
    ELSE InsertSorted(h, SortJobs(h, SubSeq(js, 1, Len(js) - 1)), js[Len(js)])

\* schedule.run_pending: the jobs that should run, sorted by next_run.
Runnable(h, js, t) ==
    SortJobs(h, SelectSeq(js, LAMBDA id : ShouldRun(h[id].job, t)))

Init ==
    /\ now = 0
    /\ heap = <<>>
    /\ tasks = [s \in Schedulers |-> <<>>]
    /\ jobs = <<>>
    /\ running = [s \in Schedulers |-> FALSE]
    /\ pc = "idle"
    /\ mode = "none"
    /\ poller = 0
    /\ due = <<>>
    /\ ran = <<>>
    /\ ev = Event("init", "ok")
    /\ per = NoPeriodic
    /\ caller = NoCall
    /\ interval = DefaultInterval

\* The clock moves on to a later instant of T.
Tick(T) ==
    /\ \E t \in T : t > now /\ now' = t
    /\ ev' = Event("tick", "ok")
    /\ UNCHANGED <<heap, tasks, jobs, running, pc, mode, poller, due, ran>>

\* Scheduler(): a new instance takes the place of instance s.
Construct(s) ==
    /\ poller # s
    /\ tasks' = [tasks EXCEPT ![s] = <<>>]
    /\ running' = [running EXCEPT ![s] = FALSE]
    /\ jobs' = <<>>
    /\ heap' = Collect(heap, tasks', jobs', Pending)
    /\ ev' = Event("Scheduler", "ok")
    /\ UNCHANGED <<now, pc, mode, poller, due, ran>>

\* add_task without the test `task.name in self.tasks`: the new task takes
\* the name over and the old job stays in the job list.
AddTaskUnchecked(s, name, schedule_spec, enabled) ==
    LET p == ParseSpec(schedule_spec) IN
    IF ~p.ok
    THEN /\ ev' = Event("add_task", p.err)
         /\ UNCHANGED <<now, heap, tasks, jobs, running, pc, mode, poller, due, ran>>
    ELSE /\ heap' = (NewId :> NewTask(name, schedule_spec, enabled, NewJob(p, now), now)) @@ heap
         /\ jobs' = Append(jobs, NewId)
         /\ tasks' = [tasks EXCEPT ![s] = (name :> NewId) @@ Restrict(@, DOMAIN @ \ {name})]
         /\ ev' = Event("add_task", "ok")
         /\ UNCHANGED <<now, running, pc, mode, poller, due, ran>>

\* add_task storing the task in self.tasks before _schedule_task parses the
\* phrase: a rejected task stays registered, without a job.
AddTaskStoredFirst(s, name, schedule_spec, enabled) ==
    LET p == ParseSpec(schedule_spec)
        nojob == [interval |-> None, unit |-> "none", at_time |-> None,
                  start_day |-> None, last_run |-> None, next_run |-> None]
    IN
    IF name \in DOMAIN tasks[s]
    THEN /\ ev' = Event("add_task", "ValueError: already exists")
         /\ UNCHANGED <<now, heap, tasks, jobs, running, pc, mode, poller, due, ran>>
    ELSE /\ heap' = (NewId :> NewTask(name, schedule_spec, enabled,
                                      IF p.ok THEN NewJob(p, now) ELSE nojob, now)) @@ heap
         /\ jobs' = IF p.ok THEN Append(jobs, NewId) ELSE jobs
         /\ tasks' = [tasks EXCEPT ![s] = (name :> NewId) @@ @]
         /\ ev' = Event("add_task", IF p.ok THEN "ok" ELSE p.err)
         /\ UNCHANGED <<now, running, pc, mode, poller, due, ran>>

\* Scheduler.add_task(Task(name, schedule_spec, action, enabled=enabled))
AddTask(s, name, schedule_spec, enabled) ==
    LET p == ParseSpec(schedule_spec) IN
    IF name \in DOMAIN tasks[s]
    THEN /\ ev' = Event("add_task", "ValueError: already exists")
         /\ UNCHANGED <<now, heap, tasks, jobs, running, pc, mode, poller, due, ran>>
    ELSE IF ~p.ok
    THEN /\ ev' = [Event("add_task", p.err) EXCEPT !.log = <<schedule_spec, Message(p)>>]
         /\ UNCHANGED <<now, heap, tasks, jobs, running, pc, mode, poller, due, ran>>
    ELSE /\ heap' = (NewId :> NewTask(name, schedule_spec, enabled, NewJob(p, now), now)) @@ heap
         /\ jobs' = Append(jobs, NewId)
         /\ tasks' = [tasks EXCEPT ![s] = (name :> NewId) @@ @]
         /\ ev' = Event("add_task", "ok")
         /\ UNCHANGED <<now, running, pc, mode, poller, due, ran>>

\* remove_task without schedule.cancel_job: the job stays in the job list.
RemoveTaskKeepingJob(s, name) ==
    IF name \notin DOMAIN tasks[s]
    THEN /\ ev' = Event("remove_task", "KeyError: not found")
         /\ UNCHANGED <<now, heap, tasks, jobs, running, pc, mode, poller, due, ran>>
    ELSE /\ tasks' = [tasks EXCEPT ![s] = Restrict(@, DOMAIN @ \ {name})]
         /\ heap' = Collect(heap, tasks', jobs, Pending)
         /\ ev' = Event("remove_task", "ok")
         /\ UNCHANGED <<now, jobs, running, pc, mode, poller, due, ran>>

\* remove_task as `self.tasks.pop(task_name, None)`: a missing name passes.
RemoveTaskLenient(s, name) ==
    IF name \notin DOMAIN tasks[s]
    THEN /\ ev' = Event("remove_task", "ok")
         /\ UNCHANGED <<now, heap, tasks, jobs, running, pc, mode, poller, due, ran>>
    ELSE /\ jobs' = Without(jobs, tasks[s][name])
         /\ tasks' = [tasks EXCEPT ![s] = Restrict(@, DOMAIN @ \ {name})]
         /\ heap' = Collect(heap, tasks', jobs', Pending)
         /\ ev' = Event("remove_task", "ok")
         /\ UNCHANGED <<now, running, pc, mode, poller, due, ran>>

\* Scheduler.remove_task(task_name)
RemoveTask(s, name) ==
    IF name \notin DOMAIN tasks[s]
    THEN /\ ev' = Event("remove_task", "KeyError: not found")
         /\ UNCHANGED <<now, heap, tasks, jobs, running, pc, mode, poller, due, ran>>
    ELSE /\ jobs' = Without(jobs, tasks[s][name])
         /\ tasks' = [tasks EXCEPT ![s] = Restrict(@, DOMAIN @ \ {name})]
         /\ heap' = Collect(heap, tasks', jobs', Pending)
         /\ ev' = Event("remove_task", "ok")
         /\ UNCHANGED <<now, running, pc, mode, poller, due, ran>>

\* Scheduler.enable_task / Scheduler.disable_task
SetEnabledToggling(op, s, name, enabled) ==
    IF name \notin DOMAIN tasks[s]
    THEN /\ ev' = Event(op, "KeyError: not found")
         /\ UNCHANGED <<now, heap, tasks, jobs, running, pc, mode, poller, due, ran>>
    ELSE /\ heap' = [heap EXCEPT ![tasks[s][name]].enabled = ~@]
         /\ ev' = Event(op, "ok")
         /\ UNCHANGED <<now, tasks, jobs, running, pc, mode, poller, due, ran>>
SetEnabled(op, s, name, enabled) ==
    IF name \notin DOMAIN tasks[s]
    THEN /\ ev' = Event(op, "KeyError: not found")
         /\ UNCHANGED <<now, heap, tasks, jobs, running, pc, mode, poller, due, ran>>
    ELSE /\ heap' = [heap EXCEPT ![tasks[s][name]].enabled = enabled]
         /\ ev' = Event(op, "ok")
         /\ UNCHANGED <<now, tasks, jobs, running, pc, mode, poller, due, ran>>

EnableTask(s, name) == SetEnabled("enable_task", s, name, TRUE)
DisableTask(s, name) == SetEnabled("disable_task", s, name, FALSE)

\* Scheduler.get_task(task_name)
GetTask(s, name) ==
    /\ ev' = Event("get_task",
                   IF name \in DOMAIN tasks[s] THEN "ok" ELSE "KeyError: not found")
    /\ UNCHANGED <<now, heap, tasks, jobs, running, pc, mode, poller, due, ran>>

\* clear() without schedule.clear(): the jobs stay in the job list.
ClearKeepingJobs(s) ==
    /\ tasks' = [tasks EXCEPT ![s] = <<>>]
    /\ heap' = Collect(heap, tasks', jobs, Pending)
    /\ ev' = Event("clear", "ok")
    /\ UNCHANGED <<now, jobs, running, pc, mode, poller, due, ran>>

\* Scheduler.clear()
Clear(s) ==
    /\ jobs' = <<>>
    /\ tasks' = [tasks EXCEPT ![s] = <<>>]
    /\ heap' = Collect(heap, tasks', jobs', Pending)
    /\ ev' = Event("clear", "ok")
    /\ UNCHANGED <<now, running, pc, mode, poller, due, ran>>

\* What a call of Task.execute() comes to.
ExecuteResult(task, outcome) ==
    IF ~task.enabled THEN "skipped"
    ELSE IF outcome = "ok" THEN "ok"
    ELSE IF Propagates(outcome) THEN outcome \o " raised to the caller"
    ELSE "error logged"

\* Task.execute() called directly on the task registered as `name` ("run now").
ExecuteTask(s, name, outcome) ==
    /\ name \in DOMAIN tasks[s]
    /\ LET id == tasks[s][name] IN
       /\ heap[id].run_count < MaxRuns
       /\ heap' = [heap EXCEPT ![id] = Execute(@, outcome, now)]
       /\ ev' = [Event("execute", ExecuteResult(heap[id], outcome))
                   EXCEPT !.log = ActionCalls(heap[id])]
    /\ UNCHANGED <<now, tasks, jobs, running, pc, mode, poller, due, ran>>

\* stop() that also abandons the poll cycle at work.
StopAbandoning(s) ==
    /\ running' = [running EXCEPT ![s] = FALSE]
    /\ pc' = IF pc \in {"poll", "action"} THEN "loop" ELSE pc
    /\ due' = <<>>
    /\ ran' = <<>>
    /\ ev' = Event("stop", "ok")
    /\ UNCHANGED <<now, heap, tasks, jobs, mode, poller>>

\* Scheduler.stop()
Stop(s) ==
    /\ running' = [running EXCEPT ![s] = FALSE]
    /\ ev' = Event("stop", "ok")
    /\ UNCHANGED <<now, heap, tasks, jobs, pc, mode, poller, due, ran>>

(***************************************************************************)
(* Polling: run_pending() and the loop of run().  The polling thread runs  *)
(* the jobs of a cycle one after the other.                                *)
(***************************************************************************)
\* Scheduler.run_pending() called directly: schedule.run_pending() collects
\* the runnable jobs.
RunPending(s) ==
    /\ pc = "idle"
    /\ due' = Runnable(heap, jobs, now)
    /\ ran' = <<>>
    /\ pc' = "poll"
    /\ mode' = "run_pending"
    /\ poller' = s
    /\ ev' = Event("run_pending", "called")
    /\ UNCHANGED <<now, heap, tasks, jobs, running>>

\* Scheduler.run() testing the flag it finds instead of setting it.
RunKeepingFlag(s, i) ==
    /\ pc = "idle"
    /\ interval' = i
    /\ \/ /\ pc' = "loop"
          /\ mode' = "run"
          /\ poller' = s
          /\ ev' = Event("run", "called")
       \/ /\ ev' = Event("run", "interrupt raised to the caller")
          /\ UNCHANGED <<pc, mode, poller>>
    /\ UNCHANGED <<now, heap, tasks, jobs, running, due, ran>>

\* Scheduler.run(interval): self._running = True and logger.info(...), then
\* the loop.  SIGINT before the try block is entered raises KeyboardInterrupt
\* to the caller of run(), with the flag set.
Run(s, i) ==
    /\ pc = "idle"
    /\ running' = [running EXCEPT ![s] = TRUE]
    /\ interval' = i
    /\ \/ /\ pc' = "loop"
          /\ mode' = "run"
          /\ poller' = s
          /\ ev' = Event("run", "called")
       \/ /\ ev' = Event("run", "interrupt raised to the caller")
          /\ UNCHANGED <<pc, mode, poller>>
    /\ UNCHANGED <<now, heap, tasks, jobs, due, ran>>

\* Where SIGINT arrives while run() leaves: not at all; in `finally:
\* self.stop()` before stop() has assigned the flag; or later, in the
\* logger.info of the except clause or of stop().
ExitSignals == {"none", "before the assignment", "after the assignment"}

\* The polling thread is back at its caller.  run() leaves through
\* `finally: self.stop()`, which clears the flag, and ends as res says; a
\* SIGINT on the way out raises KeyboardInterrupt to the caller of run()
\* instead, and leaves the flag as it is when stop() had not assigned it yet.
Return(op, res) ==
    /\ pc' = "idle"
    /\ mode' = "none"
    /\ poller' = 0
    /\ due' = <<>>
    /\ ran' = <<>>
    /\ IF mode = "run"
       THEN \E sigint \in ExitSignals :
                /\ running' = IF sigint = "before the assignment"
                              THEN running
                              ELSE [running EXCEPT ![poller] = FALSE]
                /\ ev' = Event(op, IF sigint = "none" THEN res
                                   ELSE "interrupt raised to the caller")
       ELSE /\ running' = running
            /\ ev' = Event(op, res)

\* SIGINT reaches the polling thread at the loop test of run(), or inside
\* run_pending() before a job of the cycle is run: KeyboardInterrupt is raised
\* there.  run() catches it and returns; run_pending() called directly lets
\* it through to its caller.  The jobs of the cycle that have not run stay
\* due.
Interrupted ==
    /\ pc \in {"loop", "poll"}
    /\ Return(mode, IF mode = "run" THEN "returned" ELSE "interrupt raised to the caller")
    /\ heap' = Collect(heap, tasks, jobs, <<>>)
    /\ UNCHANGED <<now, tasks, jobs>>

\* `while self._running:` either starts the next poll cycle or ends the loop.
LoopTest ==
    /\ pc = "loop"
    /\ IF running[poller]
       THEN /\ due' = Runnable(heap, jobs, now)
            /\ ran' = <<>>
            /\ pc' = "poll"
            /\ ev' = Event("run_pending", "called")
            /\ UNCHANGED <<now, heap, tasks, jobs, running, mode, poller>>
       ELSE /\ Return("run", "returned")
            /\ UNCHANGED <<now, heap, tasks, jobs>>

\* How a call through `op` ends when res leaves run_pending(): run() catches
\* a KeyboardInterrupt and returns, and lets any other BaseException through.
Uncaught(op, res) == IF op = "run" THEN {"returned", res} ELSE {res}

\* Job.run() of the next job of the cycle calls Task.execute(): a disabled
\* task returns at once and the job is rescheduled; an enabled task's action
\* is called.  JobRunHoldingDisabled keeps the job of a disabled task due,
\* and JobRunOverlapping starts a job while an action is in flight.
JobRunHoldingDisabled ==
    /\ pc = "poll"
    /\ Pending # <<>>
    /\ LET id == Head(Pending) IN
       IF heap[id].enabled
       THEN /\ pc' = "action"
            /\ ev' = Event("action", "called")
            /\ UNCHANGED <<now, heap, tasks, jobs, running, mode, poller, due, ran>>
       ELSE /\ ran' = Append(ran, "skipped")
            /\ heap' = Collect(heap, tasks, jobs, Tail(Pending))
            /\ ev' = Event("job", "skipped")
            /\ UNCHANGED <<now, tasks, jobs, running, pc, mode, poller, due>>
JobRunOverlapping ==
    /\ pc \in {"poll", "action"}
    /\ Pending # <<>>
    /\ IF pc = "action"
       THEN /\ Len(Pending) >= 2
            /\ ran' = Append(ran, "in flight")
            /\ ev' = Event("action", "called")
            /\ UNCHANGED <<now, heap, tasks, jobs, running, pc, mode, poller, due>>
       ELSE LET id == Head(Pending) IN
            IF heap[id].enabled
            THEN /\ pc' = "action"
                 /\ ev' = Event("action", "called")
                 /\ UNCHANGED <<now, heap, tasks, jobs, running, mode, poller, due, ran>>
            ELSE /\ ran' = Append(ran, "skipped")
                 /\ heap' = Collect([heap EXCEPT ![id].job = JobAfterRun(@, now)],
                                    tasks, jobs, Tail(Pending))
                 /\ ev' = Event("job", "skipped")
                 /\ UNCHANGED <<now, tasks, jobs, running, pc, mode, poller, due>>
JobRun ==
    /\ pc = "poll"
    /\ Pending # <<>>
    /\ LET id == Head(Pending) IN
       IF heap[id].enabled
       THEN /\ pc' = "action"
            /\ ev' = Event("action", "called")
            /\ UNCHANGED <<now, heap, tasks, jobs, running, mode, poller, due, ran>>
       ELSE /\ ran' = Append(ran, "skipped")
            /\ heap' = Collect([heap EXCEPT ![id].job = JobAfterRun(@, now)],
                               tasks, jobs, Tail(Pending))
            /\ ev' = Event("job", "skipped")
            /\ UNCHANGED <<now, tasks, jobs, running, pc, mode, poller, due>>

\* The action in flight returns or raises.  What Task.execute() does not
\* catch leaves run_pending() (and run(), through its `finally`); otherwise
\* Task.execute() and Job.run() finish and the cycle goes on.
ActionReturn(outcome) ==
    /\ pc = "action"
    /\ LET id == Head(Pending)
           task == TaskAfterAction(heap[id], outcome, now)
       IN  IF Propagates(outcome)
           THEN /\ \E res \in Uncaught(mode, ExecuteResult(heap[id], outcome)) :
                     Return(mode, res)
                /\ heap' = Collect(heap, tasks, jobs, <<>>)
                /\ UNCHANGED <<now, tasks, jobs>>
           ELSE /\ ran' = Append(ran, ExecuteResult(heap[id], outcome))
                /\ heap' = Collect([heap EXCEPT ![id] = [task EXCEPT !.job = JobAfterRun(@, now)]],
                                   tasks, jobs, Tail(Pending))
                /\ ev' = Event("job", ExecuteResult(heap[id], outcome))
                /\ pc' = "poll"
                /\ UNCHANGED <<now, tasks, jobs, running, mode, poller, due>>

\* Every runnable job has run: run_pending() returns.
PollDone ==
    /\ pc = "poll"
    /\ Pending = <<>>
    /\ IF mode = "run"
       THEN /\ pc' = "sleep"
            /\ due' = <<>>
            /\ ran' = <<>>
            /\ UNCHANGED <<running, mode, poller>>
       ELSE /\ pc' = "idle"
            /\ mode' = "none"
            /\ poller' = 0
            /\ due' = <<>>
            /\ ran' = <<>>
            /\ UNCHANGED running
    /\ ev' = [Event("run_pending", "returned") EXCEPT !.log = ran]
    /\ UNCHANGED <<now, heap, tasks, jobs>>

\* The intervals run() is called with: a negative one, zero and the default.
Intervals == {0 - DefaultInterval, 0, DefaultInterval}

\* How time.sleep(interval) ends: it raises ValueError at once when the
\* interval is negative; otherwise it returns when the interval is over, or
\* raises KeyboardInterrupt when SIGINT arrives during the sleep.
SleepOutcomes == {"returned", "KeyboardInterrupt", "ValueError"}
SleepEnds(i) == IF i < 0 THEN {"ValueError"} ELSE {"returned", "KeyboardInterrupt"}

\* time.sleep(interval) ends.  run() catches KeyboardInterrupt and returns,
\* and lets ValueError through; either way it leaves through
\* `finally: self.stop()`.
Sleep(outcome) ==
    /\ pc = "sleep"
    /\ outcome \in SleepEnds(interval)
    /\ IF outcome = "returned"
       THEN /\ pc' = "loop"
            /\ ev' = Event("sleep", "returned")
            /\ UNCHANGED <<now, heap, tasks, jobs, running, mode, poller, due, ran>>
       ELSE /\ Return("run", IF outcome = "KeyboardInterrupt"
                             THEN "returned"
                             ELSE outcome \o " raised to the caller")
            /\ UNCHANGED <<now, heap, tasks, jobs>>

(***************************************************************************)
(* Specifications.                                                         *)
(***************************************************************************)
\* The calls on the instances of S with the names of N and the phrases of P.
Calls(S, N, P) ==
    \/ \E s \in S : Construct(s)
    \/ \E s \in S, n \in N, p \in P, e \in BOOLEAN : AddTask(s, n, p, e)
    \/ \E s \in S, n \in N : RemoveTask(s, n)
    \/ \E s \in S, n \in N : EnableTask(s, n)
    \/ \E s \in S, n \in N : DisableTask(s, n)
    \/ \E s \in S, n \in N : GetTask(s, n)
    \/ \E s \in S : Clear(s)
    \/ \E s \in S, n \in N, o \in Outcomes : ExecuteTask(s, n, o)

\* One run_pending() cycle, step by step, and the SIGINT that ends it or ends
\* run() at its loop test.
Cycle ==
    \/ JobRun
    \/ \E o \in Outcomes : ActionReturn(o)
    \/ PollDone
    \/ Interrupted

\* The instants the clock is read at: around the 60 seconds of EverySeconds
\* and the 00:01:00 of EveryDayAt.
Instants == {0, 60}

\* A single thread calls one Scheduler instance: no call is made while
\* run_pending() is at work.
Next ==
    /\ UNCHANGED <<per, caller, interval>>
    /\ \/ Tick(Instants)
       \/ pc = "idle" /\ Calls({1}, Names, {EverySeconds, EveryBanana, InvalidSpec, EveryDayAt25})
       \/ RunPending(1)
       \/ Cycle

Spec == Init /\ [][Next]_vars

\* A single thread calls two Scheduler instances, each with one task.
TwoNext ==
    /\ UNCHANGED <<per, caller, interval>>
    /\ \/ Tick(Instants)
       \/ pc = "idle" /\ Calls(Schedulers, {"a"}, {EverySeconds, EveryBanana})
       \/ \E s \in Schedulers : RunPending(s)
       \/ Cycle

TwoSpec == Init /\ [][TwoNext]_vars

\* The instants around the periods of the phrases below and around 00:01:00
\* of the first two days.
Moments == {0, 59, 60, 120, 180, DaySecs, DaySecs + 59, DaySecs + 60}

\* A single thread calls one Scheduler instance with one task, at the
\* instants of Moments.
TimingNext ==
    /\ UNCHANGED <<per, caller, interval>>
    /\ \/ Tick(Moments)
       \/ pc = "idle" /\ Calls({1}, {"a"}, {EverySeconds, EveryTwoMinutes, EveryOneDay, EveryDayAt})
       \/ RunPending(1)
       \/ Cycle

TimingSpec == Init /\ [][TimingNext]_vars

\* Phrases are put together from words, one space between two words.
RECURSIVE Sentence(_)
Sentence(words) ==
    IF words = <<>> THEN <<>>
    ELSE IF Len(words) = 1 THEN words[1]
    ELSE words[1] \o <<" ">> \o Sentence(Tail(words))

UpperOf == [c \in {Lowers[i] : i \in 1..Len(Lowers)} |->
               Uppers[CHOOSE i \in 1..Len(Lowers) : Lowers[i] = c]]
Upper(s) == [i \in 1..Len(s) |-> IF s[i] \in DOMAIN UpperOf THEN UpperOf[s[i]] ELSE s[i]]
Capitalised(words) == [i \in 1..Len(words) |-> Upper(SubSeq(words[i], 1, 1)) \o Tail(words[i])]

Plural(w) == w \o <<"s">>
UnitWords == FixedUnits \cup {Plural(u) : u \in FixedUnits}
DayNames == {Weekdays[i] : i \in 1..Len(Weekdays)}
Integers2 == {<<"2">>, <<"6", "0">>}
T_1030 == <<"1","0",":","3","0">>
T_2500 == <<"2","5",":","0","0">>
T_1300 == <<"1","۳",":","0","0">>
W_banana == <<"b","a","n","a","n","a">>

\* The token lists add_task is tried with: the phrases of each shape the
\* parser tells apart, around them the ones with a token too many, a token
\* too few, or a token of another kind, and the ones with a digit or a
\* capital letter from outside ASCII.
TokenLists ==
    {<<W_every, u>> : u \in UnitWords}
    \cup {<<W_every, n, u>> : n \in Integers2, u \in UnitWords}
    \cup {<<W_every, d>> : d \in DayNames}
    \cup {<<W_every, d, W_at, T_1030>> : d \in DayNames \cup {W_day}}
    \cup {<<W_every, W_day, W_at>>, <<W_every, W_monday, W_at>>,
          <<W_every, W_day, W_at, T_2500>>,
          <<W_every, <<"2">>, W_minute, W_banana>>,
          <<W_every, W_day, W_at, T_1030, W_banana>>,
          <<W_every, <<"2">>, W_minute, W_at, T_1030>>,
          <<W_every, W_hour, W_at, T_1030>>,
          <<W_every, <<"2">>, W_monday>>,
          <<W_every, W_banana>>, <<W_every>>, <<>>,
          <<<<"i","n","v","a","l","i","d">>, <<"s","p","e","c">>>>}
    \cup {<<W_every, <<"۳">>, Plural(W_minute)>>,
          <<W_every, <<"²">>, W_minute>>,
          <<W_every, <<"6", "۰">>, Plural(W_second)>>,
          <<W_every, W_day, W_at, T_1300>>,
          <<W_every, <<"É">>>>, <<W_every, <<"d", "É", "y">>>>,
          <<W_every, <<"a", "Σ">>>>, <<W_every, <<"Σ", "a">>>>,
          <<<<"É", "v", "e", "r", "y">>, W_day>>}

\* The words of a phrase with sep between them and after the last one.
RECURSIVE Joined(_, _)
Joined(words, sep) ==
    IF words = <<>> THEN <<>> ELSE words[1] \o <<sep>> \o Joined(Tail(words), sep)

\* The phrases, as written, capitalised and in upper case, and written with
\* tabs or newlines for spaces (a YAML block scalar ends with a newline).
Phrases ==
    {Sentence(ws) : ws \in TokenLists}
    \cup {Sentence(Capitalised(ws)) : ws \in TokenLists}
    \cup {Upper(Sentence(ws)) : ws \in TokenLists}
    \cup {Sentence(ws) \o <<"\n">> : ws \in TokenLists}
    \cup {Joined(ws, "\t") : ws \in TokenLists}

\* A single thread registers a task under each phrase in turn.
ParserNext ==
    /\ UNCHANGED <<per, caller, interval>>
    /\ \/ \E p \in Phrases, e \in BOOLEAN : AddTask(1, "a", p, e)
       \/ RemoveTask(1, "a")

ParserSpec == Init /\ [][ParserNext]_vars

(***************************************************************************)
(* Periodic: the constructors and get_occurrences(), one step per          *)
(* iteration of its loops.                                                 *)
(***************************************************************************)
\* 2025-01-01 09:00:00, the start of the first slot, and the slot of one hour.
Jan1_0900 == 20089 * DaySecs + 9 * HourSecs
\* 2025-10-31 20:30:00, two days before the clocks of New York go back.
Oct31_2030 == 20392 * DaySecs + 20 * HourSecs + 30 * MinuteSecs
StartSlots ==
    {TimeSlot(Jan1_0900, Jan1_0900 + HourSecs), TimeSlot(Oct31_2030, Oct31_2030 + HourSecs)}
\* The last slots given with a first slot: the same hour some days away.
EndSlots(start) ==
    {TimeSlot(start.start + d * DaySecs, start.end + d * DaySecs) :
        d \in {0 - 1, 0, 1, 2, 4}}

\* Offsets: Time(1969,12,31), the epoch, Time(1970,1,2), Time(1970,1,3), and
\* the Times that are two days after the epoch of a CET and of an EST host.
Offsets ==
    {0 - DaySecs, 0, DaySecs, 2 * DaySecs,
     2 * DaySecs + HourSecs, 2 * DaySecs - 5 * HourSecs}
RepetitionLists ==
    {<<>>} \cup {<<o>> : o \in Offsets}
           \cup {<<0 - DaySecs, 3 * DaySecs>>, <<DaySecs, 0 - DaySecs>>, <<DaySecs, DaySecs>>}
IntervalDays == {0 - 1, 0, 1, 2, 31}
IntervalWeeks == {0, 1, 5}
Counts == {0, 1, 3}

\* The host keeps its zone; a new Periodic replaces the one at hand.
OnHost(tz) ==
    /\ per.pc \in {"none", "ready", "returned", "raised"}
    /\ tz \in TzOffsets
    /\ per.pc = "none" \/ tz = per.tz

Built(tz, p) == [NoPeriodic EXCEPT !.pc = "ready", !.tz = tz, !.periodic = p]
Raised(tz, err) == [NoPeriodic EXCEPT !.pc = "raised", !.tz = tz, !.result = err]

PeriodicInit(tz, start, end, repetitions) ==
    /\ OnHost(tz)
    /\ per' = [Built(tz, Periodic(start, end, repetitions))
                  EXCEPT !.made = [by |-> "Periodic", n |-> 0]]
    /\ UNCHANGED svars

FromDaily(tz, start, end, interval_days) ==
    /\ OnHost(tz)
    /\ per' = [IF ValidDay(1 + interval_days)
               THEN Built(tz, Periodic(start, end, <<January1970(1 + interval_days)>>))
               ELSE Raised(tz, "ValueError")
                  EXCEPT !.made = [by |-> "from_daily", n |-> interval_days]]
    /\ UNCHANGED svars

FromWeekly(tz, start, end, interval_weeks) ==
    /\ OnHost(tz)
    /\ LET days == interval_weeks * 7
       IN  per' = [IF ValidDay(1 + days)
                   THEN Built(tz, Periodic(start, end, <<January1970(1 + days)>>))
                   ELSE Raised(tz, "ValueError")
                      EXCEPT !.made = [by |-> "from_weekly", n |-> interval_weeks]]
    /\ UNCHANGED svars

FromCount(tz, start, repetition_interval, count) ==
    /\ OnHost(tz)
    /\ LET last_occurrence_start == AddTimes(start.start, repetition_interval, count - 1, tz)
           last_occurrence_end == TimeAddSeconds(last_occurrence_start, Duration(start))
           end == TimeSlot(last_occurrence_start, last_occurrence_end)
       IN  per' = [Built(tz, Periodic(start, end, <<repetition_interval>>))
                      EXCEPT !.made = [by |-> "from_count", n |-> count]]
    /\ UNCHANGED svars

\* The locals of get_occurrences() up to the loop: the first slot is in the
\* list.
StartOfCallResuming(frame) ==
    IF frame.history = <<>>
    THEN [frame EXCEPT !.current_start = frame.periodic.start.start,
                       !.current_end = frame.periodic.start.end,
                       !.occurrences = <<frame.periodic.start>>,
                       !.rep = 0, !.result = ""]
    ELSE [frame EXCEPT !.occurrences = <<TimeSlot(frame.current_start, frame.current_end)>>,
                       !.rep = 0, !.result = ""]
StartOfCall(frame) ==
    [frame EXCEPT !.current_start = frame.periodic.start.start,
                  !.current_end = frame.periodic.start.end,
                  !.occurrences = <<frame.periodic.start>>,
                  !.rep = 0, !.result = ""]

\* A call on the Periodic at hand, the first or a later one; at most
\* MaxCalls calls are made on one Periodic.
Enter(call) ==
    /\ per.pc \in {"ready", "returned"}
    /\ Len(per.history) < MaxCalls
    /\ per' = [StartOfCall(per) EXCEPT !.pc = "while", !.call = call]
    /\ UNCHANGED svars

GetOccurrences == Enter("get_occurrences")

\* count_occurrences() is len(self.get_occurrences()).
CountOccurrences == Enter("count_occurrences")

\* What the call returns: the list, and for count_occurrences its length.
Returned(call, occurrences) ==
    [call |-> call, occurrences |-> occurrences,
     count |-> IF call = "count_occurrences" THEN Len(occurrences) ELSE None]

\* while True: the for loop starts over.
While ==
    /\ per.pc = "while"
    /\ per' = [per EXCEPT !.pc = "for", !.rep = 1]
    /\ UNCHANGED svars

\* The for loop taking the offsets as alternatives: each offset of a pass is
\* added to the slot the pass began at.
ForAlternatives ==
    /\ per.pc = "for"
    /\ IF per.rep > Len(per.periodic.repetitions)
       THEN per' = [per EXCEPT !.pc = "while", !.rep = 0]
       ELSE LET rep == per.periodic.repetitions[per.rep]
                base == per.occurrences[Len(per.occurrences) - (per.rep - 1)]
                current_start == TimeAdd(base.start, rep, per.tz)
                current_end == TimeAdd(base.end, rep, per.tz)
                moved == [per EXCEPT !.current_start = current_start,
                                     !.current_end = current_end]
            IN  IF Exceeds(current_start, per.periodic.end.start)
                THEN per' = [moved EXCEPT !.pc = "returned", !.rep = 0, !.result = "list",
                                          !.history = Append(per.history,
                                                             Returned(per.call, per.occurrences))]
                ELSE IF Len(per.occurrences) >= MaxOccurrences
                THEN per' = [moved EXCEPT !.pc = "raised", !.rep = 0, !.result = "MemoryError"]
                ELSE per' = [moved EXCEPT !.rep = per.rep + 1,
                                          !.occurrences = Append(per.occurrences,
                                                                 TimeSlot(current_start, current_end))]
    /\ UNCHANGED svars

\* One iteration of the for loop, or its end.  A list of MaxOccurrences slots
\* cannot grow: append raises MemoryError.
For ==
    /\ per.pc = "for"
    /\ IF per.rep > Len(per.periodic.repetitions)
       THEN per' = [per EXCEPT !.pc = "while", !.rep = 0]
       ELSE LET rep == per.periodic.repetitions[per.rep]
                current_start == TimeAdd(per.current_start, rep, per.tz)
                current_end == TimeAdd(per.current_end, rep, per.tz)
                moved == [per EXCEPT !.current_start = current_start,
                                     !.current_end = current_end]
            IN  IF Exceeds(current_start, per.periodic.end.start)
                THEN per' = [moved EXCEPT !.pc = "returned", !.rep = 0, !.result = "list",
                                          !.history = Append(per.history,
                                                             Returned(per.call, per.occurrences))]
                ELSE IF Len(per.occurrences) >= MaxOccurrences
                THEN per' = [moved EXCEPT !.pc = "raised", !.rep = 0, !.result = "MemoryError"]
                ELSE per' = [moved EXCEPT !.rep = per.rep + 1,
                                          !.occurrences = Append(per.occurrences,
                                                                 TimeSlot(current_start, current_end))]
    /\ UNCHANGED svars

PeriodicNext ==
    \/ \E tz \in TzOffsets, start \in StartSlots, reps \in RepetitionLists :
           \E end \in EndSlots(start) : PeriodicInit(tz, start, end, reps)
    \/ \E tz \in TzOffsets, start \in StartSlots, n \in IntervalDays :
           \E end \in EndSlots(start) : FromDaily(tz, start, end, n)
    \/ \E tz \in TzOffsets, start \in StartSlots, n \in IntervalWeeks :
           \E end \in EndSlots(start) : FromWeekly(tz, start, end, n)
    \/ \E tz \in TzOffsets, start \in StartSlots, o \in Offsets, count \in Counts :
           FromCount(tz, start, o, count)
    \/ GetOccurrences
    \/ CountOccurrences
    \/ While
    \/ For

PeriodicSpec == Init /\ [][PeriodicNext]_vars

\* The thread in get_occurrences() keeps running.
FairPeriodicSpec == PeriodicSpec /\ WF_vars(While) /\ WF_vars(For)

(***************************************************************************)
(* Day, DayTime and Time: construction from fields, Day.add_days and        *)
(* Time + Time.  ev is the call and its result; its log holds the          *)
(* arguments and the objects the call produced.                            *)
(***************************************************************************)
Years == {1900, 2000, 2024, 2025}
Months == {0, 1, 2, 4, 12, 13}
DaysOfMonth == {0, 1, 28, 29, 30, 31, 32}
Hours == {0, 23, 24}
Minutes == {0, 59, 60}
Seconds == {0, 59, 60}

\* Day(year, month, day).
NewDay(year, month, day) ==
    /\ pc = "idle"
    /\ ev' = IF ValidDate(year, month, day)
             THEN [Event("Day", "ok") EXCEPT
                      !.log = <<<<year, month, day>>, <<Day(year, month, day)>>>>]
             ELSE [Event("Day", "ValueError") EXCEPT
                      !.log = <<<<year, month, day>>, <<>>>>]
    /\ UNCHANGED <<now, heap, tasks, jobs, running, pc, mode, poller, due, ran, per, caller, interval>>

\* DayTime(hour, minute, second).
NewDayTime(hour, minute, second) ==
    /\ pc = "idle"
    /\ ev' = IF ValidTimeOfDay(hour, minute, second)
             THEN [Event("DayTime", "ok") EXCEPT
                      !.log = <<<<hour, minute, second>>,
                                <<[hour |-> hour, minute |-> minute, second |-> second]>>>>]
             ELSE [Event("DayTime", "ValueError") EXCEPT
                      !.log = <<<<hour, minute, second>>, <<>>>>]
    /\ UNCHANGED <<now, heap, tasks, jobs, running, pc, mode, poller, due, ran, per, caller, interval>>

\* Time(year, month, day, hour, minute, second).
NewTime(year, month, day, hour, minute, second) ==
    /\ pc = "idle"
    /\ ev' = IF ValidDate(year, month, day) /\ ValidTimeOfDay(hour, minute, second)
             THEN [Event("Time", "ok") EXCEPT
                      !.log = <<<<year, month, day, hour, minute, second>>,
                                <<Fields(year, month, day, hour, minute, second)>>>>]
             ELSE [Event("Time", "ValueError") EXCEPT
                      !.log = <<<<year, month, day, hour, minute, second>>, <<>>>>]
    /\ UNCHANGED <<now, heap, tasks, jobs, running, pc, mode, poller, due, ran, per, caller, interval>>

\* The Days add_days is called on, and the numbers of days.
SomeDays ==
    {Day(1, 1, 1), Day(1900, 2, 28), Day(1900, 3, 1), Day(2000, 2, 29),
     Day(2023, 12, 31), Day(2024, 2, 28), Day(2024, 2, 29), Day(2025, 10, 24),
     Day(9999, 12, 31)}
DayCounts == {0 - 366, 0 - 31, 0 - 1, 0, 1, 7, 31, 365, 366}

\* receiver.add_days(n).  The log is <<origin, receiver, n, result, receiver
\* after the call>>: the origin is the Day the first call of a chain was made
\* on.
DayAddDays(origin, receiver, n) ==
    /\ pc = "idle"
    /\ ev' = IF Representable(DayOrdinal(receiver) + n)
             THEN [Event("Day.add_days", "ok") EXCEPT
                      !.log = <<origin, receiver, n, AddDays(receiver, n), receiver>>]
             ELSE [Event("Day.add_days", "OverflowError") EXCEPT
                      !.log = <<origin, receiver, n>>]
    /\ UNCHANGED <<now, heap, tasks, jobs, running, pc, mode, poller, due, ran, per, caller, interval>>

\* d.add_days(n) on one of the Days.
AddDaysTo(d, n) == DayAddDays(d, d, n)

\* .add_days(-n) on the Day that d.add_days(n) returned.
AddDaysBack ==
    /\ ev.op = "Day.add_days"
    /\ ev.res = "ok"
    /\ ev.log[1] = ev.log[2]
    /\ DayAddDays(ev.log[1], ev.log[4], 0 - ev.log[3])

\* The Times that are added, the second one read as a duration.
SomeTimes ==
    {Fields(2025, 1, 1, 10, 30, 45), Fields(2025, 1, 1, 10, 0, 0),
     Fields(2024, 2, 28, 23, 59, 59)}
SomeDurations ==
    {Fields(1970, 1, 1, 0, 0, 0), Fields(1970, 1, 1, 2, 30, 0),
     Fields(1970, 1, 2, 5, 15, 30), Fields(1970, 2, 1, 0, 0, 0),
     Fields(1970, 3, 1, 0, 0, 0), Fields(1971, 1, 1, 0, 0, 0),
     Fields(1973, 1, 1, 0, 0, 0)}

\* t + d on a host of zone tz.  The log is <<tz, t, d, result>>.
TimePlusTime(tz, t, d) ==
    /\ pc = "idle"
    /\ ev' = [Event("Time.__add__", "ok") EXCEPT
                 !.log = <<tz, t, d, FieldsOf(TimeAdd(TimeOf(t), TimeOf(d), tz))>>]
    /\ UNCHANGED <<now, heap, tasks, jobs, running, pc, mode, poller, due, ran, per, caller, interval>>

\* Moment(t) + Moment(d) on a host of zone tz.  The log is <<tz, t, d, result>>.
MomentPlusMoment(tz, t, d) ==
    /\ pc = "idle"
    /\ ev' = [Event("Moment.__add__", "ok") EXCEPT
                 !.log = <<tz, t, d, FieldsOf(MomentAdd(TimeOf(t), d))>>]
    /\ UNCHANGED <<now, heap, tasks, jobs, running, pc, mode, poller, due, ran, per, caller, interval>>

\* The numbers of seconds that are added.
SomeSeconds == {0 - DaySecs, 0 - 1, 0, 1, HourSecs, DaySecs, 31 * DaySecs}

\* Time(t) + n and Moment(t) + n.  The log is <<t, n, the Time, the Moment>>.
PlusSeconds(t, n) ==
    /\ pc = "idle"
    /\ ev' = [Event("__add__(int)", "ok") EXCEPT
                 !.log = <<t, n, FieldsOf(TimeAddSeconds(TimeOf(t), n)),
                           FieldsOf(MomentAddSeconds(TimeOf(t), n))>>]
    /\ UNCHANGED <<now, heap, tasks, jobs, running, pc, mode, poller, due, ran, per, caller, interval>>

CalendarNext ==
    \/ \E y \in Years, m \in Months, d \in DaysOfMonth : NewDay(y, m, d)
    \/ \E h \in Hours, m \in Minutes, sec \in Seconds : NewDayTime(h, m, sec)
    \/ \E y \in Years, m \in Months, d \in DaysOfMonth, h \in Hours :
           NewTime(y, m, d, h, 59, 0)
    \/ \E d \in SomeDays, n \in DayCounts : AddDaysTo(d, n)
    \/ AddDaysBack
    \/ \E tz \in TzOffsets, t \in SomeTimes, d \in SomeDurations : TimePlusTime(tz, t, d)
    \/ \E tz \in TzOffsets, t \in SomeTimes, d \in SomeDurations : MomentPlusMoment(tz, t, d)
    \/ \E t \in SomeTimes, n \in SomeSeconds : PlusSeconds(t, n)

CalendarSpec == Init /\ [][CalendarNext]_vars

(***************************************************************************)
(* Two threads on one Scheduler: one polls, the other one is in add_task,  *)
(* remove_task or clear, which change the job list of the schedule module  *)
(* and the registry in two separate statements.                            *)
(***************************************************************************)
\* add_task up to self._schedule_task(task): the job is in the job list.
AddTaskSchedule(s, name, schedule_spec, enabled) ==
    LET p == ParseSpec(schedule_spec) IN
    /\ caller = NoCall
    /\ IF name \in DOMAIN tasks[s]
       THEN /\ ev' = Event("add_task", "ValueError: already exists")
            /\ UNCHANGED <<heap, jobs, caller>>
       ELSE IF ~p.ok
       THEN /\ ev' = [Event("add_task", p.err) EXCEPT !.log = <<schedule_spec, Message(p)>>]
            /\ UNCHANGED <<heap, jobs, caller>>
       ELSE /\ heap' = (NewId :> NewTask(name, schedule_spec, enabled, NewJob(p, now), now)) @@ heap
            /\ jobs' = Append(jobs, NewId)
            /\ caller' = [at |-> "add_task", s |-> s, name |-> name, id |-> NewId]
            /\ ev' = Event("add_task", "scheduled")
    /\ UNCHANGED <<now, tasks, running, pc, mode, poller, due, ran>>

\* add_task: self.tasks[task.name] = task
AddTaskStore ==
    /\ caller.at = "add_task"
    /\ tasks' = [tasks EXCEPT ![caller.s] = (caller.name :> caller.id) @@ @]
    /\ caller' = NoCall
    /\ ev' = Event("add_task", "ok")
    /\ UNCHANGED <<now, heap, jobs, running, pc, mode, poller, due, ran>>

\* remove_task up to schedule.cancel_job(task._job)
RemoveTaskCancel(s, name) ==
    /\ caller = NoCall
    /\ IF name \notin DOMAIN tasks[s]
       THEN /\ ev' = Event("remove_task", "KeyError: not found")
            /\ UNCHANGED <<heap, jobs, caller>>
       ELSE /\ jobs' = Without(jobs, tasks[s][name])
            /\ heap' = Collect(heap, tasks, jobs', Pending)
            /\ caller' = [at |-> "remove_task", s |-> s, name |-> name, id |-> tasks[s][name]]
            /\ ev' = Event("remove_task", "cancelled")
    /\ UNCHANGED <<now, tasks, running, pc, mode, poller, due, ran>>

\* remove_task: del self.tasks[task_name]
RemoveTaskDelete ==
    /\ caller.at = "remove_task"
    /\ tasks' = [tasks EXCEPT ![caller.s] = Restrict(@, DOMAIN @ \ {caller.name})]
    /\ heap' = Collect(heap, tasks', jobs, Pending)
    /\ caller' = NoCall
    /\ ev' = Event("remove_task", "ok")
    /\ UNCHANGED <<now, jobs, running, pc, mode, poller, due, ran>>

\* clear: schedule.clear()
ClearJobs(s) ==
    /\ caller = NoCall
    /\ jobs' = <<>>
    /\ heap' = Collect(heap, tasks, jobs', Pending)
    /\ caller' = [NoCall EXCEPT !.at = "clear", !.s = s]
    /\ ev' = Event("clear", "jobs cleared")
    /\ UNCHANGED <<now, tasks, running, pc, mode, poller, due, ran>>

\* clear: self.tasks.clear()
ClearTasks ==
    /\ caller.at = "clear"
    /\ tasks' = [tasks EXCEPT ![caller.s] = <<>>]
    /\ heap' = Collect(heap, tasks', jobs, Pending)
    /\ caller' = NoCall
    /\ ev' = Event("clear", "ok")
    /\ UNCHANGED <<now, jobs, running, pc, mode, poller, due, ran>>

\* One thread is in run() on the instance while another thread registers
\* tasks, in the two statements of add_task, and calls stop().
RunNext ==
    /\ UNCHANGED per
    /\ \/ /\ \E i \in Intervals : Run(1, i)
          /\ UNCHANGED caller
       \/ /\ UNCHANGED interval
          /\ \/ Tick(Instants) /\ UNCHANGED caller
             \/ \E n \in Names, e \in BOOLEAN : AddTaskSchedule(1, n, EverySeconds, e)
             \/ AddTaskStore
             \/ Stop(1) /\ UNCHANGED caller
             \/ LoopTest /\ UNCHANGED caller
             \/ Cycle /\ UNCHANGED caller
             \/ /\ \E o \in SleepOutcomes : Sleep(o)
                /\ UNCHANGED caller

RunSpec == Init /\ [][RunNext]_vars

ThreadNext ==
    /\ UNCHANGED <<per, interval>>
    /\ \/ Tick(Instants) /\ UNCHANGED caller
       \/ \E n \in Names, e \in BOOLEAN : AddTaskSchedule(1, n, EverySeconds, e)
       \/ AddTaskStore
       \/ \E n \in Names : RemoveTaskCancel(1, n)
       \/ RemoveTaskDelete
       \/ ClearJobs(1)
       \/ ClearTasks
       \/ RunPending(1) /\ UNCHANGED caller
       \/ Cycle /\ UNCHANGED caller

ThreadSpec == Init /\ [][ThreadNext]_vars

(***************************************************************************)
(* The claims.                                                             *)
(***************************************************************************)
Registered(s) == DOMAIN tasks[s]
TaskOf(s, n) == heap[tasks[s][n]]
Attempted == {"ok", "error logged"}

\* C1 (as claimed): whenever the execution of a task's action is attempted,
\* by a poll or by a direct execute(), run_count grows by exactly 1 and
\* last_run becomes the time of the attempt, whether the action returns or
\* raises an Exception.
C1_AttemptCounted ==
    [][/\ (pc = "action" /\ pc' = "poll") =>
            LET id == Head(Pending) IN
                /\ heap'[id].run_count = heap[id].run_count + 1
                /\ heap'[id].last_run = now
       /\ \A s \in Schedulers, n \in Names, o \in {"ok", "raise"} :
            (n \in Registered(s) /\ ExecuteTask(s, n, o) /\ TaskOf(s, n).enabled) =>
                /\ heap'[tasks[s][n]].run_count = TaskOf(s, n).run_count + 1
                /\ heap'[tasks[s][n]].last_run = now]_vars

\* C2: an Exception raised by a task's action never reaches the caller of
\* run_pending() or of execute(), and when the poll cycle in which an action
\* failed has gone through its jobs, the action of every enabled task that
\* was due in the cycle has been executed.
C2_FailureContained ==
    /\ ev.res # "raise raised to the caller"
    /\ (pc = "poll" /\ Pending = <<>> /\ \E k \in 1..Len(ran) : ran[k] = "error logged") =>
          /\ Len(ran) = Len(due)
          /\ \A k \in 1..Len(due) : heap[due[k]].enabled => ran[k] \in Attempted

\* C2 witness: a cycle in which the first action failed and the next one ran.
C2_Witness ==
    /\ pc = "poll"
    /\ Pending = <<>>
    /\ ran = <<"error logged", "ok">>
    /\ heap[due[2]].run_count = 1

\* C3: add_task with a name that is registered raises "already exists" and
\* changes neither the registry, nor the job list, nor any task.
C3_DuplicateRejected ==
    [][\A s \in Schedulers, n \in Names,
          p \in {EverySeconds, EveryBanana}, e \in BOOLEAN :
          (ev'.op = "add_task" /\ n \in Registered(s) /\ AddTask(s, n, p, e)) =>
              /\ ev' = Event("add_task", "ValueError: already exists")
              /\ UNCHANGED <<tasks, jobs, heap>>]_vars

\* C3 witness: the duplicate was refused while the name is registered.
C3_Witness ==
    /\ ev = Event("add_task", "ValueError: already exists")
    /\ \E s \in Schedulers : Registered(s) # {}

\* C4: add_task with a phrase the parser rejects raises, and afterwards the
\* task is not registered, the job list holds no job for it, and every
\* registered task and its job are as before.
C4_InvalidSpecAtomic ==
    [][\A s \in Schedulers, n \in Names,
          p \in {EveryBanana, InvalidSpec, EveryDayAt25}, e \in BOOLEAN :
          (ev'.op = "add_task" /\ n \notin Registered(s) /\ AddTask(s, n, p, e)) =>
              /\ ev'.res \in {"ValueError", "ScheduleValueError"}
              /\ n \notin DOMAIN tasks'[s]
              /\ UNCHANGED <<tasks, jobs, heap>>]_vars

\* C4 witness: a phrase was rejected while another task is registered.
C4_Witness ==
    /\ ev.op = "add_task"
    /\ ev.res \in {"ValueError", "ScheduleValueError"}
    /\ \E s \in Schedulers : Registered(s) # {} /\ Registered(s) # Names
    /\ jobs # <<>>

\* C7: a task that is disabled when Task.execute() is called, by a poll or
\* directly, does not have its action called, and its run_count and last_run
\* stay as they are.
C7_DisabledNeverRuns ==
    [][/\ pc' = "action" => heap'[Head(Pending')].enabled
       /\ \A id \in DOMAIN heap :
            (~heap[id].enabled /\ id \in DOMAIN heap') =>
                /\ heap'[id].run_count = heap[id].run_count
                /\ heap'[id].last_run = heap[id].last_run
       /\ \A s \in Schedulers, n \in Names, o \in Outcomes :
            (n \in Registered(s) /\ ExecuteTask(s, n, o) /\ ~TaskOf(s, n).enabled) =>
                ev' = Event("execute", "skipped")]_vars

\* C7 witness: a poll has just passed over a due task that is disabled, and
\* the task has never run.
C7_Witness ==
    /\ ev = Event("job", "skipped")
    /\ \E k \in 1..Len(ran) :
          /\ ran[k] = "skipped"
          /\ ~heap[due[k]].enabled
          /\ heap[due[k]].run_count = 0
          /\ heap[due[k]].last_run = None

\* C8: remove_task, enable_task, disable_task and get_task with a name that
\* is not registered raise "not found" and change neither the registry, nor
\* any task, nor the job list.
C8_NotFound ==
    [][\A s \in Schedulers, n \in Names :
          (/\ n \notin Registered(s)
           /\ \/ RemoveTask(s, n)
              \/ EnableTask(s, n)
              \/ DisableTask(s, n)
              \/ GetTask(s, n)) =>
              /\ ev'.res = "KeyError: not found"
              /\ UNCHANGED <<tasks, jobs, heap>>]_vars

\* C8 witness: remove_task was refused while another task is registered.
C8_Witness ==
    /\ ev = Event("remove_task", "KeyError: not found")
    /\ jobs # <<>>

\* The triggers of instance t: the jobs in the job list of the tasks that
\* are registered in t, each with its state.
Triggers(t) ==
    [id \in {i \in Range(jobs) : i \in Range(tasks[t])} |-> heap[id].job]

\* C9 (as claimed): constructing an instance s, or clear(), remove_task() or
\* run_pending() on s, leaves the triggers of every other instance as they
\* are: none is removed and none is fired.
C9_OwnTriggerSet ==
    [][\A s \in Schedulers :
          (\/ Construct(s)
           \/ Clear(s)
           \/ \E n \in Names : RemoveTask(s, n)
           \/ RunPending(s)
           \/ poller = s /\ (JobRun \/ \E o \in Outcomes : ActionReturn(o))) =>
              \A t \in Schedulers \ {s} : Triggers(t)' = Triggers(t)]_vars

(***************************************************************************)
(* Due-ness (C5, C6), checked under TimingSpec.                            *)
(***************************************************************************)
FixedInterval(task) == task.job.at_time = None /\ task.job.start_day = None
DailyAt(task) == task.job.unit = "days" /\ task.job.at_time # None

\* A poll has just collected its runnable jobs.
PollStarts == ev = Event("run_pending", "called")

\* C5 (as claimed): a poll at `now` executes a registered fixed-interval task if and
\* only if the task is enabled and either has never run or
\* now - last_run >= interval.
C5_DueSinceLastRun ==
    PollStarts =>
        \A id \in Range(jobs) :
            FixedInterval(heap[id]) =>
                ((id \in Range(due) /\ heap[id].enabled) <=>
                    /\ heap[id].enabled
                    /\ \/ heap[id].last_run = None
                       \/ now - heap[id].last_run >= Period(heap[id].job))

\* C6 (as claimed): for a registered "every day at HH:MM" task that has
\* never run, a poll at a time of day before HH:MM:00 does not find it due
\* and does not call its action, and a poll at exactly HH:MM:00 finds it due
\* when it is enabled.
C6_DailyAtWindow ==
    /\ PollStarts =>
          \A id \in Range(jobs) :
              (/\ DailyAt(heap[id])
               /\ heap[id].last_run = None
               /\ heap[id].job.last_run = None) =>
                  /\ TimeOfDay(now) < heap[id].job.at_time => id \notin Range(due)
                  /\ (TimeOfDay(now) = heap[id].job.at_time /\ heap[id].enabled) =>
                        id \in Range(due)
    /\ ev = Event("action", "called") =>
          LET task == heap[Head(Pending)]
          IN  (DailyAt(task) /\ task.last_run = None /\ task.job.last_run = None) =>
                  TimeOfDay(now) >= task.job.at_time

(***************************************************************************)
(* run() and stop() (C10), checked under RunSpec.                          *)
(***************************************************************************)
\* C10: stop() changes nothing but the running flag, so an action in flight
\* goes on; once the flag of the instance run() is looping on is cleared,
\* no further poll cycle starts, the flag stays cleared, and the next test
\* of the loop ends run() with the flag cleared: run() returns, unless a
\* SIGINT on its way out raises KeyboardInterrupt to its caller instead.
C10_StopCooperative ==
    [][/\ ev'.op = "stop" =>
            /\ UNCHANGED <<now, heap, tasks, jobs, pc, mode, poller, due, ran>>
            /\ \A s \in Schedulers : running'[s] => running[s]
       /\ (mode = "run" /\ ~running[poller]) =>
            /\ ~PollStarts'
            /\ ~running'[poller]
            /\ mode' = "run" => poller' = poller
       /\ (mode = "run" /\ pc = "loop" /\ ~running[poller] /\ pc' # pc) =>
            /\ pc' = "idle"
            /\ ev'.op = "run"
            /\ ev'.res \in {"returned", "interrupt raised to the caller"}]_vars

\* C10 witness: stop() was called while an action called from run() is in
\* flight, and the action is still in flight.
C10_Witness ==
    /\ ev = Event("stop", "ok")
    /\ mode = "run"
    /\ pc = "action"
    /\ ~running[poller]

(***************************************************************************)
(* The recurrence grammar (C11, C12, C13), checked under ParserSpec.       *)
(***************************************************************************)
\* HH:MM of the grammar: a two-digit hour up to 23 and a two-digit minute up
\* to 59.
IsHHMM(w) ==
    /\ Len(w) = 5
    /\ w[3] = ":"
    /\ \A i \in {1, 2, 4, 5} : w[i] \in DigitSet
    /\ 10 * ValueOf[w[1]] + ValueOf[w[2]] <= 23
    /\ 10 * ValueOf[w[4]] + ValueOf[w[5]] <= 59

IsInteger(w) == w # <<>> /\ \A i \in 1..Len(w) : w[i] \in DigitSet

\* The phrase is derivable from the grammar
\*   spec := "every" unit | "every" INTEGER unit
\*         | "every" DAYNAME ["at" HH:MM] | "every" "day" ["at" HH:MM]
\* read case-insensitively and whitespace-delimited.
InGrammar(phrase) ==
    LET t == Split(Lower(phrase)) IN
    /\ Len(t) >= 2
    /\ t[1] = W_every
    /\ \/ Len(t) = 2 /\ t[2] \in UnitWords \cup DayNames
       \/ Len(t) = 3 /\ IsInteger(t[2]) /\ t[3] \in UnitWords
       \/ Len(t) = 4 /\ t[2] \in DayNames \cup {W_day} /\ t[3] = W_at /\ IsHHMM(t[4])

\* A phrase has just been rejected by add_task.
PhraseRejected == ev.op = "add_task" /\ ev.log # <<>>

\* C11 (as claimed): add_task rejects no phrase that is derivable from the
\* grammar, in whatever case it is written.
C11_GrammarAccepted ==
    PhraseRejected => ~InGrammar(ev.log[1])

\* C12 (as claimed): every phrase that is not derivable from the grammar is
\* rejected by add_task with the invalid-spec error: no task is registered
\* under such a phrase, and the error of a rejection is the ValueError of
\* _schedule_task.
C12_NonGrammarRejected ==
    /\ \A id \in DOMAIN heap : InGrammar(heap[id].schedule_spec)
    /\ PhraseRejected => ev.res = "ValueError"

RECURSIVE Contains(_, _)
\* needle in hay (str.__contains__).
Contains(hay, needle) ==
    IF Len(needle) > Len(hay) THEN FALSE
    ELSE IF SubSeq(hay, 1, Len(needle)) = needle THEN TRUE
    ELSE Contains(Tail(hay), needle)

\* C13 (as claimed): the message of the error a rejected phrase raises
\* contains the schedule_spec the task was given.
C13_ErrorNamesPhrase ==
    PhraseRejected => Contains(ev.log[2], ev.log[1])

(***************************************************************************)
(* Failures, removal and "run now" (C14, C15, C16).                        *)
(***************************************************************************)
\* C14: a step in which an action fails leaves every task's enabled flag as
\* it is, and when the failure was in a poll cycle it leaves the task's
\* trigger with next_run after now (for a fixed-interval task, one interval
\* after now); and a poll cycle only runs the jobs whose next_run has come.
C14_NoRetryNoDisable ==
    [][/\ ev'.res = "error logged" =>
            \A id \in DOMAIN heap \cap DOMAIN heap' :
                heap'[id].enabled = heap[id].enabled
       /\ ev' = Event("job", "error logged") =>
            LET id == Head(Pending) IN
                /\ heap'[id].enabled
                /\ heap'[id].job.next_run > now
                /\ FixedInterval(heap[id]) =>
                       heap'[id].job.next_run = now + Period(heap[id].job)
       /\ PollStarts' =>
            \A k \in 1..Len(due') : now' >= heap'[due'[k]].job.next_run]_vars

\* C14 witness: the action of a task that has never succeeded has just
\* failed in a poll, two intervals or more after the task was registered, and
\* the task is enabled and due again one interval from now.
C14_Witness ==
    /\ ev = Event("job", "error logged")
    /\ \E id \in Range(jobs) :
          /\ FixedInterval(heap[id])
          /\ heap[id].enabled
          /\ heap[id].run_count = 0
          /\ heap[id].job.last_run = now
          /\ now >= heap[id].registered + 2 * Period(heap[id].job)
          /\ heap[id].job.next_run = now + Period(heap[id].job)

\* The names get_tasks() of instance s lists.
GetTasks(s) == {heap[tasks[s][n]].name : n \in DOMAIN tasks[s]}

\* C15: when remove_task(name) returns for a registered name, the task is
\* absent from get_tasks() and its job is in the job list no more; a poll
\* cycle that starts runs only jobs of the job list, so none runs a removed
\* task; and add_task of a task with a valid phrase under a name that is not
\* registered succeeds.
C15_RemovedForGood ==
    [][/\ \A s \in Schedulers, n \in Names :
            (n \in Registered(s) /\ RemoveTask(s, n)) =>
                /\ ev' = Event("remove_task", "ok")
                /\ n \notin GetTasks(s)'
                /\ tasks[s][n] \notin Range(jobs')
                /\ tasks[s][n] \notin Range(tasks'[s])
       /\ PollStarts' => Range(due') \subseteq Range(jobs')
       /\ pc' = "action" => Head(Pending') \in Range(due')
       /\ \A s \in Schedulers, n \in Names, e \in BOOLEAN :
            (/\ ev'.op = "add_task"
             /\ ev.op = "remove_task"
             /\ n \notin Registered(s)
             /\ AddTask(s, n, EverySeconds, e)) =>
                /\ ev' = Event("add_task", "ok")
                /\ n \in GetTasks(s)'
                /\ tasks'[s][n] \in Range(jobs')]_vars

\* C15 witness: a task has been registered again under the name of a task
\* that was removed while another task stayed registered (the new task has
\* the identity the removed one gave up, and its job is the last of the list).
C15_Witness ==
    /\ ev = Event("add_task", "ok")
    /\ Registered(1) = Names
    /\ Len(jobs) = 2
    /\ jobs[1] > jobs[2]

\* C16: Task.execute() called directly on an enabled task, due or not,
\* calls the action exactly once, with the task's stored parameters, and
\* leaves the task's job as it is; when the action returns normally,
\* run_count grows by exactly 1 and last_run becomes the time of the call.
C16_RunNow ==
    [][\A s \in Schedulers, n \in Names, o \in Outcomes :
          (/\ ev'.op = "execute"
           /\ n \in Registered(s)
           /\ TaskOf(s, n).enabled
           /\ ExecuteTask(s, n, o)) =>
              /\ ev'.log = <<TaskOf(s, n).parameters>>
              /\ heap'[tasks[s][n]].job = TaskOf(s, n).job
              /\ o = "ok" =>
                    /\ ev'.res = "ok"
                    /\ heap'[tasks[s][n]].run_count = TaskOf(s, n).run_count + 1
                    /\ heap'[tasks[s][n]].last_run = now]_vars

\* C16 witness: a task whose job is not due and has never fired has just
\* been run directly, for the first time.
C16_Witness ==
    /\ ev.op = "execute"
    /\ ev.res = "ok"
    /\ \E n \in Registered(1) :
          /\ ev.log = <<TaskOf(1, n).parameters>>
          /\ TaskOf(1, n).run_count = 1
          /\ TaskOf(1, n).last_run = now
          /\ TaskOf(1, n).job.last_run = None
          /\ now < TaskOf(1, n).job.next_run


\* A Periodic is at hand: constructed, and perhaps being enumerated.
Constructed == per.pc \in {"ready", "while", "for", "returned"}
Starts(slots) == [i \in 1..Len(slots) |-> slots[i].start]

\* The Periodic repeats every N days, N >= 1: its one offset is the Time N
\* days after the epoch (what from_daily(start, end, N) builds).
EveryDays(p) ==
    /\ Len(p.repetitions) = 1
    /\ \E N \in 1..30 : p.repetitions[1] = January1970(1 + N)

\* C17 (as claimed): get_occurrences applies the boundary inclusively: for a
\* Periodic that repeats every N days from start s, with the boundary start at
\* s + k*N days, the list returned has exactly k+1 occurrences, starting at
\* s, s + N days, ..., s + k*N days.
C17_BoundaryInclusive ==
    (/\ per.pc = "returned"
     /\ EveryDays(per.periodic)
     /\ per.periodic.end.start >= per.periodic.start.start
     /\ (per.periodic.end.start - per.periodic.start.start) % per.periodic.repetitions[1] = 0)
    => LET s == per.periodic.start.start
           step == per.periodic.repetitions[1]
           k == (per.periodic.end.start - s) \div step
       IN  Starts(per.occurrences) = [i \in 1..(k + 1) |-> s + (i - 1) * step]

\* C18 (as claimed): get_occurrences terminates and returns a list, for every
\* Periodic that can be constructed: a call that has entered the loop returns.
C18_Terminates == (per.pc = "while") ~> (per.pc = "returned")

\* An offset advances when adding it to a Time gives a later Time.
Advances(offset, tz) == TimeAdd(Jan1_0900, offset, tz) > Jan1_0900

\* C19 (as claimed): no Periodic is constructed with an empty offsets list or
\* with an offset that does not advance: every Periodic at hand has at least
\* one offset, and each of its offsets advances.
C19_NonAdvancingRejected ==
    Constructed =>
        /\ per.periodic.repetitions # <<>>
        /\ \A i \in 1..Len(per.periodic.repetitions) :
               Advances(per.periodic.repetitions[i], per.tz)

\* C20 (as claimed): a Periodic whose start.start equals end.start yields
\* exactly one occurrence, the first one, whatever its offsets: the list of
\* get_occurrences never holds more than the first slot, and the call returns
\* it.
C20_SingleOccurrence ==
    (/\ per.pc \in {"while", "for", "returned", "raised"}
     /\ per.result # "ValueError"
     /\ per.periodic.start.start = per.periodic.end.start)
    => /\ per.occurrences = <<per.periodic.start>>
       /\ per.result # "MemoryError"


\* The lists the get_occurrences() calls on the Periodic at hand returned, and
\* the numbers its count_occurrences() calls returned.
Lists == {per.history[i].occurrences : i \in {j \in 1..Len(per.history) : per.history[j].call = "get_occurrences"}}
Numbers == {per.history[i].count : i \in {j \in 1..Len(per.history) : per.history[j].call = "count_occurrences"}}

\* C21: get_occurrences is deterministic and idempotent: the calls on one
\* Periodic return equal lists, every count_occurrences() is the length of
\* what get_occurrences() returns, and no step of a call changes the
\* Periodic's start, end or repetitions.
C21_Idempotent ==
    [][(per.pc \in {"ready", "while", "for", "returned"} /\ per'.pc \in {"while", "for", "returned"})
           => /\ per'.periodic = per.periodic
              /\ Cardinality(Lists') <= 1
              /\ Cardinality(Numbers') <= 1
              /\ \A l \in Lists', n \in Numbers' : n = Len(l)]_vars

\* Two calls of get_occurrences() on one Periodic have returned a list of
\* three slots.
C21_Witness ==
    /\ per.pc = "returned"
    /\ Len(per.history) = 2
    /\ per.history[1].call = "get_occurrences"
    /\ per.history[2].call = "get_occurrences"
    /\ Len(per.history[2].occurrences) = 3


\* C22 (as claimed): for every N >= 1, from_daily(start, end, N) constructs a
\* Periodic whose one offset advances a Time by exactly N days, and
\* from_weekly(start, end, N) one whose offset advances it by exactly N*7
\* days.
C22_DailyWeeklyOffsets ==
    (per.made.by \in {"from_daily", "from_weekly"} /\ per.made.n >= 1)
    => /\ per.result # "ValueError"
       /\ Len(per.periodic.repetitions) = 1
       /\ TimeAdd(Jan1_0900, per.periodic.repetitions[1], per.tz)
              = Jan1_0900 + per.made.n * DaySecs * (IF per.made.by = "from_weekly" THEN 7 ELSE 1)


\* C23: for every count K >= 1 and every interval that advances,
\* get_occurrences() on from_count(start, interval, K) returns exactly K
\* slots, the first being start and the last starting K-1 additions of the
\* interval after start.start.
C23_FromCount ==
    (/\ per.pc = "returned"
     /\ per.made.by = "from_count"
     /\ per.made.n >= 1
     /\ Advances(per.periodic.repetitions[1], per.tz))
    => LET K == per.made.n
           list == per.history[Len(per.history)].occurrences
       IN  /\ Len(list) = K
           /\ list[1] = per.periodic.start
           /\ list[K].start = AddTimes(per.periodic.start.start,
                                       per.periodic.repetitions[1], K - 1, per.tz)

\* get_occurrences() has returned three slots for a from_count(..., 3) on a
\* host that is not on UTC.
C23_Witness ==
    /\ per.pc = "returned"
    /\ per.made = [by |-> "from_count", n |-> 3]
    /\ per.tz # 0
    /\ Advances(per.periodic.repetitions[1], per.tz)
    /\ Len(per.history[1].occurrences) = 3
    /\ per.history[1].occurrences[3].start > per.periodic.start.start


\* The number of seconds the claim reads a Time used as a duration as: years
\* of 365 days and months of 30 days.
DurationSeconds(d) ==
    ((d.year - 1970) * 365 + (d.month - 1) * 30 + (d.day - 1)) * DaySecs
        + d.hour * HourSecs + d.minute * MinuteSecs + d.second

\* C24 (as claimed): t + d, for Times t and d, is t advanced by exactly
\* ((d.year-1970)*365 + (d.month-1)*30 + (d.day-1))*86400 + d.hour*3600
\* + d.minute*60 + d.second seconds.
C24_DurationArithmetic ==
    ev.op = "Time.__add__"
        => ev.log[4] = FieldsOf(TimeOf(ev.log[2]) + DurationSeconds(ev.log[3]))

\* C25: d.add_days(n).add_days(-n) equals d whenever d.add_days(n) is
\* representable, every Day returned is a date of the calendar, and add_days
\* leaves the Day it is called on as it was.
C25_AddDaysRoundTrip ==
    (ev.op = "Day.add_days" /\ ev.res = "ok")
        => /\ ValidDate(ev.log[4].year, ev.log[4].month, ev.log[4].day)
           /\ ev.log[5] = ev.log[2]
           /\ (ev.log[3] = 0 => ev.log[4] = ev.log[2])
           /\ (ev.log[1] # ev.log[2] => ev.log[4] = ev.log[1])

\* 1900-03-01 has come back from .add_days(-1).add_days(1), through
\* 1900-02-28.
C25_Witness ==
    /\ ev.op = "Day.add_days"
    /\ ev.res = "ok"
    /\ ev.log[1] = Day(1900, 3, 1)
    /\ ev.log[2] = Day(1900, 2, 28)
    /\ ev.log[3] = 1
    /\ ev.log[4] = Day(1900, 3, 1)

\* The fields are a date of the Gregorian calendar / a time of the day, as
\* the claim lists them.
GregorianDate(year, month, day) ==
    /\ month \in 1..12
    /\ day >= 1
    /\ day <= 31
    /\ month \in {4, 6, 9, 11} => day <= 30
    /\ month = 2 => day <= 29
    /\ (month = 2 /\ day = 29) => (year % 4 = 0 /\ (year % 100 # 0 \/ year % 400 = 0))
ClockTime(hour, minute, second) ==
    /\ hour >= 0 /\ hour < 24
    /\ minute >= 0 /\ minute < 60
    /\ second >= 0 /\ second < 60
WellFormed(op, a) ==
    CASE op = "Day" -> GregorianDate(a[1], a[2], a[3])
      [] op = "DayTime" -> ClockTime(a[1], a[2], a[3])
      [] op = "Time" -> GregorianDate(a[1], a[2], a[3]) /\ ClockTime(a[4], a[5], a[6])

\* C26: constructing a Day, a DayTime or a Time from fields that are not a
\* Gregorian date or not a time of the day fails with ValueError and produces
\* no object.
C26_InvalidFieldsRejected ==
    (ev.op \in {"Day", "DayTime", "Time"} /\ ~WellFormed(ev.op, ev.log[1]))
        => ev.res = "ValueError" /\ ev.log[2] = <<>>

\* DayTime(24, 0, 0) has been rejected.
C26_Witness ==
    /\ ev.op = "DayTime"
    /\ ev.log[1] = <<24, 0, 0>>
    /\ ev.res = "ValueError"


\* C27: polling is synchronous: an action is called only when no action is
\* in flight, for the first job of the cycle that has not run yet; while it is
\* in flight the cycle does not move on; and its return is what lets the
\* next due job run.
C27_Synchronous ==
    [][/\ (pc' = "action" /\ (pc # "action" \/ ran' # ran)) =>
            /\ pc = "poll"
            /\ due' = due
            /\ ran' = ran
            /\ heap[Head(Pending)].enabled
       /\ (pc = "action" /\ pc' = "action") => (due' = due /\ ran' = ran)
       /\ (pc = "action" /\ pc' = "poll") =>
            /\ due' = due
            /\ Len(ran') = Len(ran) + 1
            /\ SubSeq(ran', 1, Len(ran)) = ran]_vars

\* The second action of a cycle of run() is in flight; the first one has
\* returned.
C27_Witness ==
    /\ mode = "run"
    /\ pc = "action"
    /\ Len(due) = 2
    /\ Len(ran) = 1
    /\ ran[1] \in Attempted

\* C29 (as claimed): run() reads the stop flag after each poll cycle and
\* before the next sleep: when stop() was called during the cycle, run() does
\* not go to sleep after it.
C29_NoSleepAfterStop ==
    [][(mode = "run" /\ pc = "poll" /\ pc' = "sleep") => running[poller]]_vars


\* The fields of a task other than its enabled flag.
Unflagged(task) == [task EXCEPT !.enabled = TRUE]

\* C28: enable_task and disable_task on a registered name change the enabled
\* flag of that one task and nothing else: the registered names, the jobs,
\* the clock, the poll in progress, the other tasks and the task's other
\* fields (run_count, last_run, schedule) stay as they were, and the flag is
\* true after enable_task and false after disable_task whatever it was
\* before.
C28_EnableDisableFrame ==
    [][(ev'.op \in {"enable_task", "disable_task"} /\ ev'.res = "ok") =>
           /\ UNCHANGED <<now, tasks, jobs, running, pc, mode, poller, due, ran>>
           /\ DOMAIN heap' = DOMAIN heap
           /\ \A id \in DOMAIN heap : Unflagged(heap'[id]) = Unflagged(heap[id])
           /\ \E s \in Schedulers : \E n \in Registered(s) :
                  /\ heap'[tasks[s][n]].enabled = (ev'.op = "enable_task")
                  /\ \A id \in DOMAIN heap \ {tasks[s][n]} : heap'[id] = heap[id]]_vars

\* enable_task has succeeded with two tasks registered, one of which has run
\* and is enabled while the other is disabled.
C28_Witness ==
    /\ ev = Event("enable_task", "ok")
    /\ Registered(1) = Names
    /\ TaskOf(1, "a").enabled
    /\ TaskOf(1, "a").run_count > 0
    /\ ~TaskOf(1, "b").enabled


\* The job list and the registries agree: every job in the list is the job of
\* a registered task, and every registered task's job is in the list.
JobsMatchRegistry ==
    /\ \A i \in 1..Len(jobs) : \E s \in Schedulers : jobs[i] \in Range(tasks[s])
    /\ \A s \in Schedulers : \A n \in Registered(s) : \E i \in 1..Len(jobs) : jobs[i] = tasks[s][n]

\* C30 (as claimed): registry mutation and the poll's start-of-cycle snapshot
\* are mutually exclusive: when a poll collects the runnable jobs, no
\* add_task, remove_task or clear is half-applied, so the job list and the
\* registry agree.
C30_SnapshotExcludesMutation ==
    PollStarts => (caller = NoCall /\ JobsMatchRegistry)

(***************************************************************************)
(* Periodic: the shape of the list of occurrences.                         *)
(***************************************************************************)
\* The list the last call on the Periodic returned.
LastList == per.history[Len(per.history)].occurrences

\* Every offset of the Periodic moves a Time forward on this host.
AllAdvance ==
    \A i \in 1..Len(per.periodic.repetitions) :
        Advances(per.periodic.repetitions[i], per.tz)

\* C37 (as claimed): every occurrence get_occurrences returns has the
\* duration of the first one, every occurrence after the first starts no
\* later than end.start, and with forward-advancing offsets the starts are
\* strictly increasing.
C37_OccurrenceShape ==
    per.pc = "returned"
    => /\ \A i \in 1..Len(LastList) : Duration(LastList[i]) = Duration(LastList[1])
       /\ \A i \in 2..Len(LastList) : LastList[i].start <= per.periodic.end.start
       /\ AllAdvance
          => \A i \in 1..(Len(LastList) - 1) : LastList[i].start < LastList[i + 1].start

\* The offset the k-th addition of get_occurrences applies: the offsets in
\* turn, pass after pass.
OffsetOfStep(k) ==
    per.periodic.repetitions[((k - 1) % Len(per.periodic.repetitions)) + 1]

\* C31: with offsets o1..om, the list get_occurrences returns starts at s and
\* each further start is the one before plus the next offset in turn (s,
\* s+o1, s+o1+o2, ..., and o1 again after om); every addition gives one
\* occurrence, each of them within the boundary, and the list ends at the
\* first addition that passes the boundary, wherever in a pass that is.
C31_SequentialOffsets ==
    (per.pc = "returned" /\ per.periodic.repetitions # <<>>)
    => /\ LastList[1] = per.periodic.start
       /\ \A k \in 1..(Len(LastList) - 1) :
              /\ LastList[k + 1].start = TimeAdd(LastList[k].start, OffsetOfStep(k), per.tz)
              /\ LastList[k + 1].end = TimeAdd(LastList[k].end, OffsetOfStep(k), per.tz)
              /\ ~Exceeds(LastList[k + 1].start, per.periodic.end.start)
       /\ Exceeds(TimeAdd(LastList[Len(LastList)].start, OffsetOfStep(Len(LastList)), per.tz),
                  per.periodic.end.start)

\* A list of two different offsets gave six occurrences, the second one
\* earlier than the first, and the enumeration stopped at the second offset
\* of a pass.
C31_Witness ==
    /\ per.pc = "returned"
    /\ Len(per.periodic.repetitions) = 2
    /\ per.periodic.repetitions[1] # per.periodic.repetitions[2]
    /\ Len(LastList) = 6
    /\ LastList[2].start < LastList[1].start
    /\ LastList[3].start > LastList[1].start

(***************************************************************************)
(* Time: the host's zone.                                                  *)
(***************************************************************************)
\* C38 (as claimed): the sum of two Times does not depend on the zone of the
\* host: on every host t + d is what it is on a host on UTC.
C38_ZoneIndependent ==
    ev.op = "Time.__add__"
    => ev.log[4] = FieldsOf(TimeAdd(TimeOf(ev.log[2]), TimeOf(ev.log[3]), 0))

(***************************************************************************)
(* Time and Moment.                                                        *)
(***************************************************************************)
\* C39 (as claimed): Time and Moment agree on addition: Moment(t) + Moment(d)
\* has the fields of Time(t) + Time(d) on the same host, and Moment(t) + n
\* has the fields of Time(t) + n.
C39_InstantsAgree ==
    /\ ev.op = "Moment.__add__"
       => ev.log[4] = FieldsOf(TimeAdd(TimeOf(ev.log[2]), TimeOf(ev.log[3]), ev.log[1]))
    /\ ev.op = "__add__(int)" => ev.log[3] = ev.log[4]

(***************************************************************************)
(* run() and stop().                                                       *)
(***************************************************************************)
\* C33: run() sets the running flag on entry whatever stop() did before, so
\* a stop() that completed just before does not keep it from polling; while
\* the flag is set the loop goes on to the next poll, unless SIGINT ends
\* run() there; run() returns only with the flag false, from the loop test
\* (the flag cleared by a later stop(), or KeyboardInterrupt) or when
\* KeyboardInterrupt leaves run_pending() or the sleep; apart from that it is
\* left by an exception that reaches its caller: the ValueError of time.sleep
\* for a negative interval, with the flag false, or a BaseException from an
\* action or the KeyboardInterrupt of a SIGINT on the way in or out.
C33_RunOverridesStop ==
    [][/\ (pc = "idle" /\ pc' = "loop") =>
            /\ running'[poller']
            /\ ev = Event("stop", "ok") => ~running[poller']
       /\ (mode = "run" /\ pc = "loop" /\ running[poller] /\ pc' # pc) =>
            \/ pc' = "poll" /\ running'[poller]
            \/ pc' = "idle" /\ ev'.res \in {"returned", "interrupt raised to the caller"}
       /\ (mode = "run" /\ mode' = "none") =>
            /\ ev'.op = "run"
            /\ \/ /\ ev'.res = "returned"
                  /\ ~running'[poller]
                  /\ pc = "sleep" => interval >= 0
               \/ /\ ev'.res = "ValueError raised to the caller"
                  /\ ~running'[poller]
                  /\ pc = "sleep"
                  /\ interval < 0
               \/ ev'.res = "interrupt raised to the caller"]_vars

\* run() was entered and is in a poll cycle with a job to run and the flag
\* set.
C33_Witness ==
    /\ mode = "run"
    /\ pc = "poll"
    /\ running[poller]
    /\ Pending # <<>>

(***************************************************************************)
(* Disabled tasks in a poll cycle.                                         *)
(***************************************************************************)
\* C34: when the job of a disabled task is due in a poll cycle, the job runs
\* without the action: its last_run becomes now and its next_run moves after
\* now (for a fixed-interval task, one interval after now), and the task's
\* run_count, last_run and enabled flag stay; enable_task leaves the trigger
\* as it is; and a poll cycle only runs the jobs whose next_run has come, so
\* a task enabled after such a cycle waits for that next_run.
C34_DisabledTriggerAdvances ==
    [][/\ (pc = "poll" /\ Pending # <<>> /\ ~heap[Head(Pending)].enabled /\ ev'.op = "job")
          => LET id == Head(Pending) IN
                 /\ ev'.res = "skipped"
                 /\ pc' = "poll"
                 /\ heap'[id].job.last_run = now
                 /\ heap'[id].job.next_run > now
                 /\ FixedInterval(heap[id]) =>
                        heap'[id].job.next_run = now + Period(heap[id].job)
                 /\ [heap'[id] EXCEPT !.job = heap[id].job] = heap[id]
       /\ ev' = Event("enable_task", "ok")
          => \A id \in DOMAIN heap : heap'[id].enabled /\ heap'[id].job = heap[id].job
       /\ (ev' = Event("run_pending", "called"))
          => \A k \in 1..Len(due') : now' >= heap'[due'[k]].job.next_run]_vars

\* A task that has never run was enabled two intervals or more after it was
\* registered, after a poll cycle consumed its trigger while it was disabled:
\* it is not due before one interval after that cycle.
C34_Witness ==
    /\ ev = Event("enable_task", "ok")
    /\ \E id \in Range(jobs) :
          /\ FixedInterval(heap[id])
          /\ heap[id].enabled
          /\ heap[id].run_count = 0
          /\ heap[id].last_run = None
          /\ heap[id].job.last_run # None
          /\ now >= heap[id].registered + 2 * Period(heap[id].job)
          /\ heap[id].job.next_run = heap[id].job.last_run + Period(heap[id].job)
          /\ heap[id].job.next_run > now

(***************************************************************************)
(* The counters of a task.                                                 *)
(***************************************************************************)
\* run_count is not negative and last_run is unset exactly when it is 0.
CountersAgree(task) ==
    /\ task.run_count >= 0
    /\ task.last_run = None <=> task.run_count = 0

\* C36: in every state the scheduler operations and Task.execute reach, every
\* task has run_count >= 0 and has last_run unset if and only if run_count
\* is 0, and no step makes the run_count of a task smaller.
C36_CountersTogether ==
    /\ \A id \in DOMAIN heap : CountersAgree(heap[id])
    /\ [][/\ \A id \in DOMAIN heap' : CountersAgree(heap'[id])
          /\ \A id \in DOMAIN heap \cap DOMAIN heap' :
                 heap'[id].run_count >= heap[id].run_count]_vars

\* An action has just failed: its task has never run and has no last_run,
\* while another task has run twice and has one.
C36_Witness ==
    /\ ev.res = "error logged"
    /\ \E id1, id2 \in DOMAIN heap :
          /\ heap[id1].run_count = 0
          /\ heap[id1].last_run = None
          /\ heap[id1].enabled
          /\ heap[id2].run_count = 2
          /\ heap[id2].last_run # None

(***************************************************************************)
(* The trigger set and the registry of one Scheduler.                      *)
(***************************************************************************)
\* The positions of the job list that hold the job of task id.
JobsOf(id) == {i \in 1..Len(jobs) : jobs[i] = id}

\* C35: with a single Scheduler, whatever calls and polls were made and
\* whether they failed or not, the trigger set holds exactly one job for
\* every registered task and no job of a task that is not registered.
C35_OneJobPerTask ==
    /\ \A n \in Registered(1) : Cardinality(JobsOf(tasks[1][n])) = 1
    /\ \A n, m \in Registered(1) : tasks[1][n] = tasks[1][m] => n = m
    /\ \A i \in 1..Len(jobs) : \E n \in Registered(1) : jobs[i] = tasks[1][n]

\* A call has just failed while one task, which a poll has run, is
\* registered with its job, after another task was removed.
C35_Witness ==
    /\ ev.op \in {"add_task", "remove_task"}
    /\ ev.res \notin {"ok"}
    /\ Cardinality(Registered(1)) = 1
    /\ Len(jobs) = 1
    /\ jobs[1] # 1
    /\ heap[jobs[1]].job.last_run # None

(***************************************************************************)
(* remove_task during a poll cycle.                                        *)
(***************************************************************************)
\* C32 (as claimed): once remove_task has returned, polling does not invoke
\* the action of the removed task, also when the task was removed during the
\* poll cycle that had found it due: the step after the return of
\* remove_task calls no action of a task that is not in the registry.
C32_RemovedNeverInvoked ==
    [][(ev = Event("remove_task", "ok") /\ pc = "poll" /\ pc' = "action")
          => Head(Pending) \in Range(tasks[poller])
                \/ (caller.at = "add_task" /\ caller.id = Head(Pending))]_vars
====
